---- MODULE Spec2Model ----
(***************************************************************************)
(* State-machine model of the ATS address registry and the proportional    *)
(* bandwidth assignment of gnunet-service-ats_addresses.c.                 *)
(*                                                                         *)
(* Bandwidth fields (struct GNUNET_BANDWIDTH_Value32NBO) are held in the   *)
(* model as the host-order number ntohl (value__); every read in the code  *)
(* goes through ntohl and every write through htonl.                       *)
(* The chain of one peer in the multihashmap is a sequence in iteration    *)
(* order (the order in which get_multiple hands the values to a callback); *)
(* a callback may remove the value it is handed, and every value of the    *)
(* chain is handed to the callback once.                                   *)
(* Of struct ATS_Address the model keeps the fields some operation reads:  *)
(* the copy of the ats array, the utilization and the cost values are      *)
(* written by GAS_addresses_update and read by no operation modelled here. *)
(***************************************************************************)
EXTENDS Integers, Sequences, FiniteSets, TLC

\* ---------------------------------------------------------------- bounds
NumPeers == 3
MaxAddrs == 2
MaxSession == 1
MaxMetric == 1
MaxAtsi == 1
MaxNets == 2
NumRilPeers == 1
MaxRilAddrs == 2
MaxAssigned == 2048
MaxSteps == 2
MaxTasks == 4
MaxEncrypted == 4
CorkDelay == 1
MaxAnnounce == 3
MaxQueue == 3
MaxTime == 2
RilQuota == 4096

\* the number of quality properties and the default bandwidth
\* (GNUNET_CONSTANTS_DEFAULT_BW_IN_OUT) the solver is built with: the headers
\* that define them are not among the sources, the solver only names them
GNUNET_ATS_QualityPropertiesCount == 2
min_bw == 1024

\* program constants
NO_TASK == 0
RIL_ACTION_INVALID == -1
RIL_ACTION_TYPE_NUM == 9
RIL_FEATURES_NETWORK_COUNT == 4

Peers == 1..NumPeers
FocusPeers == {1}
\* the (plugin name, plugin address) pairs the transport reports
Endpoints == {<<"tcp", <<>>>>, <<"tcp", <<1>>>>, <<"tcp", <<2>>>>, <<"udp", <<1>>>>}
LoadEndpoints == {<<"tcp", <<1>>>>}
Sessions == 0..MaxSession
AtsTypes == {"GNUNET_ATS_QUALITY_NET_DELAY", "GNUNET_ATS_QUALITY_NET_DISTANCE"}
AtsInfo == [type : AtsTypes, value : 0..MaxMetric]
AtsLists == UNION {[1..n -> AtsInfo] : n \in 0..MaxAtsi}
\* the sizes of the messages of the core service
MessageSizes == 1..3
\* the configured quotas (options WAN_QUOTA_IN and WAN_QUOTA_OUT of section ats)
WanQuotaIn == 1
WanQuotaOut == 1000

VARIABLES addresses, active_addr_count, wan_quota_in, wan_quota_out,
          sent, aborted, last,
          net_head, typed,
          solver, ats_addresses, bw_changed, ril_abort, rcall,
          pending, interface_task, next_step, freed,
          announcements, regex_abort, acall,
          session, now, tx, core_abort

\* the interface table and the last answer of GAS_addresses_type
netvars == <<net_head, typed>>

\* the RIL solver, the addresses it is told about, the calls of
\* bandwidth_changed_cb of the last call, whether the process died, and (as
\* history) the last call with the list index of the address it removed
rilvars == <<solver, ats_addresses, bw_changed, ril_abort, rcall>>

\* the tasks the scheduler holds, the two task handles of the program, and the
\* subsystems that were shut down
timervars == <<pending, interface_task, next_step, freed>>

\* the announcements of the regex client library, whether the process died in
\* it, and (as history) its last call
regexvars == <<announcements, regex_abort, acall>>

\* the session of the core service with its peer, the clock, the outcome of
\* the last try_transmission (history), and whether the process died in it
corevars == <<session, now, tx, core_abort>>

extvars == <<regexvars, corevars>>

vars == <<addresses, active_addr_count, wan_quota_in, wan_quota_out,
          sent, aborted, last, netvars, rilvars, timervars, extvars>>

\* history: the call that led to the current state (the record of destroy_all
\* also holds the number of addresses that were active when it was called)
Called(op, peer, plugin_name, plugin_addr, session_id) ==
  [op |-> op, peer |-> peer, plugin |-> plugin_name, addr |-> plugin_addr,
   session_id |-> session_id]

\* ------------------------------------------------------------ struct ATS_Address
\* a freshly GNUNET_malloc'ed (zeroed) record with the fields set in
\* GAS_addresses_update
NewAddress(plugin_name, plugin_addr, session_id) ==
  [plugin |-> plugin_name, addr |-> plugin_addr, session_id |-> session_id,
   atsp_distance |-> 0, atsp_latency |-> 0,
   assigned_bw_in |-> 0, assigned_bw_out |-> 0, active |-> FALSE]

addr_len(aa) == Len(aa.addr)

\* 0 == memcmp (a, b, n)
memcmp0(a, b, n) == \A i \in 1..n : a[i] = b[i]

RemoveAt(s, i) == SubSeq(s, 1, i - 1) \o SubSeq(s, i + 1, Len(s))
InsertAt(s, i, e) == SubSeq(s, 1, i - 1) \o <<e>> \o SubSeq(s, i, Len(s))

\* ------------------------------------------------------------ notifications
SchedulingMsg(peer, aa) ==
  [to |-> "scheduling", peer |-> peer, plugin |-> aa.plugin, addr |-> aa.addr,
   session_id |-> aa.session_id, bw_out |-> aa.assigned_bw_out,
   bw_in |-> aa.assigned_bw_in]

ReservationMsg(peer, aa) ==
  [to |-> "reservations", peer |-> peer, bw_in |-> aa.assigned_bw_in]

PerformanceMsg(peer, aa) ==
  [to |-> "performance", peer |-> peer, plugin |-> aa.plugin, addr |-> aa.addr,
   bw_out |-> aa.assigned_bw_out, bw_in |-> aa.assigned_bw_in]

\* ------------------------------------------------------------ update_bw_it
\* variant: the outbound share is taken from the inbound quota
update_bw_it_inquota(st, peer, i) ==
  LET aa == st.addrs[peer][i] IN
  IF ~aa.active THEN st
  ELSE IF ~(st.count > 0) THEN [st EXCEPT !.aborted = TRUE]
  ELSE
    LET na == [aa EXCEPT !.assigned_bw_in = wan_quota_in \div st.count,
                         !.assigned_bw_out = wan_quota_in \div st.count]
    IN [st EXCEPT !.addrs[peer][i] = na,
                  !.out = @ \o <<SchedulingMsg(peer, na),
                                 ReservationMsg(peer, na),
                                 PerformanceMsg(peer, na)>>]

\* variant: every active address is given the whole quota
update_bw_it_whole(st, peer, i) ==
  LET aa == st.addrs[peer][i] IN
  IF ~aa.active THEN st
  ELSE IF ~(st.count > 0) THEN [st EXCEPT !.aborted = TRUE]
  ELSE
    LET na == [aa EXCEPT !.assigned_bw_in = wan_quota_in,
                         !.assigned_bw_out = wan_quota_out]
    IN [st EXCEPT !.addrs[peer][i] = na,
                  !.out = @ \o <<SchedulingMsg(peer, na),
                                 ReservationMsg(peer, na),
                                 PerformanceMsg(peer, na)>>]

\* st = [addrs, count, out, aborted]; the callback applied to the value at
\* position i of peer's chain
update_bw_it(st, peer, i) ==
  LET aa == st.addrs[peer][i] IN
  IF ~aa.active THEN st
  ELSE IF ~(st.count > 0) THEN [st EXCEPT !.aborted = TRUE]
  ELSE
    LET na == [aa EXCEPT !.assigned_bw_in = wan_quota_in \div st.count,
                         !.assigned_bw_out = wan_quota_out \div st.count]
    IN [st EXCEPT !.addrs[peer][i] = na,
                  !.out = @ \o <<SchedulingMsg(peer, na),
                                 ReservationMsg(peer, na),
                                 PerformanceMsg(peer, na)>>]

RECURSIVE IterateBw(_, _, _)
IterateBw(st, peer, i) ==
  IF st.aborted THEN st
  ELSE IF peer > NumPeers THEN st
  ELSE IF i > Len(st.addrs[peer]) THEN IterateBw(st, peer + 1, 1)
  ELSE IterateBw(update_bw_it(st, peer, i), peer, i + 1)

recalculate_assigned_bw(st) == IterateBw(st, 1, 1)

\* ------------------------------------------------------------ destroy_address
\* variant: the counter is not decremented for an active address
destroy_address_keepcount(st, peer, i) ==
  LET aa == st.addrs[peer][i] IN
  [st |-> [st EXCEPT !.addrs[peer] = RemoveAt(@, i)],
   ret |-> aa.active]

\* removes the value at position i of peer's chain; ret tells whether the
\* bandwidth allocations should be recalculated
destroy_address(st, peer, i) ==
  LET aa == st.addrs[peer][i] IN
  [st |-> [st EXCEPT !.addrs[peer] = RemoveAt(@, i),
                     !.count = IF aa.active THEN @ - 1 ELSE @],
   ret |-> aa.active]

\* ------------------------------------------------------------ find_address
\* variant: a record is equivalent only if address and session both match
compare_address_it_both(aa, search) ==
  ((addr_len(aa) # addr_len(search)) \/
   (aa.plugin # search.plugin) \/
   ~memcmp0(aa.addr, search.addr, addr_len(aa))) \/
  (aa.session_id # search.session_id)

\* TRUE when the iteration continues (GNUNET_YES), FALSE when aa is the result
compare_address_it(aa, search) ==
  ((addr_len(aa) # addr_len(search)) \/
   (aa.plugin # search.plugin) \/
   ~memcmp0(aa.addr, search.addr, addr_len(aa))) /\
  ((aa.session_id # search.session_id) \/
   (search.session_id = 0))

\* position of the existing equivalent record in the chain, 0 for NULL
find_address(chain, search) ==
  LET hits == {i \in 1..Len(chain) : ~compare_address_it(chain[i], search)}
  IN IF hits = {} THEN 0
     ELSE CHOOSE i \in hits : \A j \in hits : i <= j

\* ------------------------------------------------------------ GAS_addresses_update
\* variant: the entries are applied from the last to the first, so that the
\* first entry of a kind wins
RECURSIVE ApplyAtsi_reversed(_, _, _)
ApplyAtsi_reversed(old, atsi, i) ==
  IF i > Len(atsi) THEN old
  ELSE LET rest == ApplyAtsi_reversed(old, atsi, i + 1)
       IN CASE atsi[i].type = "GNUNET_ATS_QUALITY_NET_DELAY" ->
                 [rest EXCEPT !.atsp_latency = atsi[i].value]
            [] atsi[i].type = "GNUNET_ATS_QUALITY_NET_DISTANCE" ->
                 [rest EXCEPT !.atsp_distance = atsi[i].value]
            [] OTHER -> rest

RECURSIVE ApplyAtsi(_, _, _)
ApplyAtsi(old, atsi, i) ==
  IF i > Len(atsi) THEN old
  ELSE ApplyAtsi(
         CASE atsi[i].type = "GNUNET_ATS_QUALITY_NET_DELAY" ->
                [old EXCEPT !.atsp_latency = atsi[i].value]
           [] atsi[i].type = "GNUNET_ATS_QUALITY_NET_DISTANCE" ->
                [old EXCEPT !.atsp_distance = atsi[i].value]
           [] OTHER -> old,
         atsi, i + 1)

\* GNUNET_CONTAINER_multihashmap_put (..., MULTIPLE): the place of the new
\* value in the iteration order is not fixed by the container's interface
multihashmap_put(chain, aa, pos) == InsertAt(chain, pos, aa)

GAS_addresses_update(peer, plugin_name, plugin_addr, session_id, atsi) ==
  /\ ~aborted
  /\ LET aa == NewAddress(plugin_name, plugin_addr, session_id)
         old == find_address(addresses[peer], aa)
     IN IF old = 0
        THEN /\ Len(addresses[peer]) < MaxAddrs
             /\ \E pos \in 1..(Len(addresses[peer]) + 1) :
                  addresses' = [addresses EXCEPT ![peer] =
                     multihashmap_put(@, ApplyAtsi(aa, atsi, 1), pos)]
        ELSE addresses' = [addresses EXCEPT ![peer][old] =
                 ApplyAtsi([@ EXCEPT !.session_id = session_id], atsi, 1)]
  /\ sent' = <<>>
  /\ UNCHANGED <<active_addr_count, wan_quota_in, wan_quota_out, aborted>>

\* ------------------------------------------------------------ GAS_addresses_destroy
\* variant: a placeholder without address bytes is kept when its session dies
destroy_by_session_id_keep(st, peer, i, info) ==
  LET aa == st.addrs[peer][i] IN
  IF (info.session_id = 0) /\ (info.plugin = aa.plugin) /\
     (addr_len(aa) = addr_len(info)) /\
     memcmp0(info.addr, aa.addr, addr_len(aa))
  THEN LET d == destroy_address(st, peer, i) IN
       [st |-> IF d.ret THEN recalculate_assigned_bw(d.st) ELSE d.st,
        removed |-> TRUE]
  ELSE IF aa.session_id # info.session_id
  THEN [st |-> st, removed |-> FALSE]
  ELSE
    LET s1 == [st EXCEPT !.addrs[peer][i].session_id = 0]
        s2 == IF aa.active
              THEN recalculate_assigned_bw(
                     [s1 EXCEPT !.addrs[peer][i].active = FALSE,
                                !.count = @ - 1])
              ELSE s1
    IN [st |-> s2, removed |-> FALSE]

\* the callback applied to the value at position i of peer's chain; removed
\* tells whether that value left the chain
destroy_by_session_id(st, peer, i, info) ==
  LET aa == st.addrs[peer][i] IN
  IF (info.session_id = 0) /\ (info.plugin = aa.plugin) /\
     (addr_len(aa) = addr_len(info)) /\
     memcmp0(info.addr, aa.addr, addr_len(aa))
  THEN LET d == destroy_address(st, peer, i) IN
       [st |-> IF d.ret THEN recalculate_assigned_bw(d.st) ELSE d.st,
        removed |-> TRUE]
  ELSE IF aa.session_id # info.session_id
  THEN [st |-> st, removed |-> FALSE]
  ELSE
    LET s1 == [st EXCEPT !.addrs[peer][i].session_id = 0]
        s2 == IF aa.active
              THEN recalculate_assigned_bw(
                     [s1 EXCEPT !.addrs[peer][i].active = FALSE,
                                !.count = @ - 1])
              ELSE s1
    IN IF addr_len(aa) = 0
       THEN [st |-> destroy_address(s2, peer, i).st, removed |-> TRUE]
       ELSE [st |-> s2, removed |-> FALSE]

RECURSIVE IterateDestroy(_, _, _, _)
IterateDestroy(st, peer, i, info) ==
  IF st.aborted \/ i > Len(st.addrs[peer]) THEN st
  ELSE LET r == destroy_by_session_id(st, peer, i, info)
       IN IterateDestroy(r.st, peer, IF r.removed THEN i ELSE i + 1, info)

GAS_addresses_destroy(peer, plugin_name, plugin_addr, session_id) ==
  /\ ~aborted
  /\ LET info == NewAddress(plugin_name, plugin_addr, session_id)
         st == IterateDestroy([addrs |-> addresses, count |-> active_addr_count,
                               out |-> <<>>, aborted |-> FALSE],
                              peer, 1, info)
     IN /\ addresses' = st.addrs
        /\ active_addr_count' = st.count
        /\ sent' = st.out
        /\ aborted' = st.aborted
  /\ UNCHANGED <<wan_quota_in, wan_quota_out>>

\* ------------------------------------------------------------ find_address_it
\* TRUE when aa replaces the current candidate ab
find_address_it(ab, aa) ==
  IF (ab.assigned_bw_in = 0) /\ (aa.assigned_bw_in > 0) THEN TRUE
  ELSE IF ab.atsp_distance > aa.atsp_distance THEN TRUE
  ELSE IF ab.atsp_latency > aa.atsp_latency THEN TRUE
  ELSE FALSE

\* the fold of find_address_it over the chain: position of the address that
\* get_multiple leaves in *ap, 0 for NULL
RECURSIVE FoldBest(_, _, _)
FoldBest(chain, ap, i) ==
  IF i > Len(chain) THEN ap
  ELSE IF ap = 0 THEN FoldBest(chain, i, i + 1)
  ELSE IF find_address_it(chain[ap], chain[i]) THEN FoldBest(chain, i, i + 1)
  ELSE FoldBest(chain, ap, i + 1)

find_best(chain) == FoldBest(chain, 0, 1)

\* ------------------------------------------------------------ GAS_addresses_request_address
GAS_addresses_request_address(peer) ==
  /\ ~aborted
  /\ LET aa == find_best(addresses[peer]) IN
     IF aa = 0
     THEN /\ sent' = <<>>
          /\ UNCHANGED <<addresses, active_addr_count, aborted>>
     ELSE IF ~addresses[peer][aa].active
     THEN LET st == recalculate_assigned_bw(
                      [addrs |-> [addresses EXCEPT ![peer][aa].active = TRUE],
                       count |-> active_addr_count + 1,
                       out |-> <<>>, aborted |-> FALSE])
          IN /\ addresses' = st.addrs
             /\ active_addr_count' = st.count
             /\ sent' = st.out
             /\ aborted' = st.aborted
     ELSE /\ sent' = <<SchedulingMsg(peer, addresses[peer][aa])>>
          /\ UNCHANGED <<addresses, active_addr_count, aborted>>
  /\ UNCHANGED <<wan_quota_in, wan_quota_out>>

\* ------------------------------------------------------------ GAS_addresses_destroy_all
\* variant: only one value of every key is visited
RECURSIVE IterateFree_once(_, _)
IterateFree_once(st, peer) ==
  IF peer > NumPeers THEN st
  ELSE IF Len(st.addrs[peer]) = 0 THEN IterateFree_once(st, peer + 1)
  ELSE IterateFree_once(destroy_address(st, peer, 1).st, peer + 1)

RECURSIVE IterateFree(_, _)
IterateFree(st, peer) ==
  IF peer > NumPeers THEN st
  ELSE IF Len(st.addrs[peer]) = 0 THEN IterateFree(st, peer + 1)
  ELSE IterateFree(destroy_address(st, peer, 1).st, peer)

GAS_addresses_destroy_all ==
  /\ ~aborted
  /\ LET st == IterateFree([addrs |-> addresses, count |-> active_addr_count,
                            out |-> <<>>, aborted |-> FALSE], 1)
     IN /\ addresses' = st.addrs
        /\ active_addr_count' = st.count
        /\ sent' = st.out
        /\ aborted' = ~(st.count = 0)
  /\ UNCHANGED <<wan_quota_in, wan_quota_out>>

\* ------------------------------------------------------------ scheduler
\* A task identifier is only ever compared: the one GNUNET_SCHEDULER_add_*
\* returns is any that names no pending task and is held in no handle.
TaskIds == 1..MaxTasks

Task(id, task) == [id |-> id, task |-> task]

SCHEDULER_add(tasks, held) ==
  CHOOSE id \in TaskIds :
    /\ id \notin {t.id : t \in tasks} \cup held
    /\ \A n \in TaskIds : n < id => n \in {t.id : t \in tasks} \cup held

\* GNUNET_SCHEDULER_cancel asserts that the task is pending
SCHEDULER_valid(tasks, id) == \E t \in tasks : t.id = id

SCHEDULER_cancel(tasks, id) == {t \in tasks : t.id # id}

\* ------------------------------------------------------------ GAS_addresses_type
\* A struct sockaddr is held as its family and the bytes of its address in the
\* order they have in memory (network byte order): four octets for s_addr,
\* sixteen for sin6_addr.  The bitwise operators of the code work byte by byte,
\* and htonl (0x7f000000) is the octets 127, 0, 0, 0.
RECURSIVE BitAnd(_, _)
BitAnd(a, b) ==
  IF a = 0 \/ b = 0 THEN 0
  ELSE 2 * BitAnd(a \div 2, b \div 2) + (a % 2) * (b % 2)

RECURSIVE BitOr(_, _)
BitOr(a, b) ==
  IF a = 0 THEN b
  ELSE IF b = 0 THEN a
  ELSE 2 * BitOr(a \div 2, b \div 2) + (IF a % 2 = 1 \/ b % 2 = 1 THEN 1 ELSE 0)

And(x, y) == [i \in DOMAIN x |-> BitAnd(x[i], y[i])]
Or(x, y) == [i \in DOMAIN x |-> BitOr(x[i], y[i])]

Sockaddr4(o) == [sa_family |-> "AF_INET", bytes |-> o]
Sockaddr6(o) == [sa_family |-> "AF_INET6", bytes |-> o]

\* sizeof (struct sockaddr_in) and sizeof (struct sockaddr_in6)
SockLen(a) == IF a.sa_family = "AF_INET" THEN 16 ELSE 28

\* the tail of an IPv6 address whose first two octets are h1, h2 and whose last
\* octet is l
V6(h1, h2, l) == <<h1, h2, 0, 0, 0, 0, 0, 0, 0, 0, 0, 0, 0, 0, 0, l>>
Ones6 == [i \in 1..16 |-> 255]
Prefix64 == [i \in 1..16 |-> IF i <= 8 THEN 255 ELSE 0]

\* the addresses the transport asks about
SockAddrs ==
  {Sockaddr4(<<127, 0, 0, 1>>), Sockaddr4(<<192, 168, 0, 5>>),
   Sockaddr4(<<192, 168, 1, 5>>), Sockaddr4(<<8, 8, 8, 8>>),
   Sockaddr4(<<255, 255, 255, 255>>),
   Sockaddr6(V6(0, 0, 1)), Sockaddr6(V6(254, 128, 5)),
   Sockaddr6(V6(32, 1, 1))}

\* the interfaces of the host: address and netmask
Interfaces ==
  {[addr |-> Sockaddr4(<<192, 168, 0, 1>>), netmask |-> Sockaddr4(<<255, 255, 255, 0>>)],
   [addr |-> Sockaddr4(<<127, 0, 0, 1>>), netmask |-> Sockaddr4(<<255, 0, 0, 0>>)],
   [addr |-> Sockaddr6(V6(254, 128, 1)), netmask |-> Sockaddr6(Prefix64)],
   [addr |-> Sockaddr6(V6(0, 0, 1)), netmask |-> Sockaddr6(Ones6)]}

InterfaceLists == UNION {[1..n -> Interfaces] : n \in 0..MaxNets}

NoAnswer == [addr |-> Sockaddr4(<<0, 0, 0, 0>>), value |-> "none"]

\* IN6_IS_ADDR_LOOPBACK: the address ::1
IN6_IS_ADDR_LOOPBACK(b) == (\A i \in 1..15 : b[i] = 0) /\ b[16] = 1

\* the body of the while loop for the entry cur: the type after it
CheckNetwork(addr, cur, type) ==
  IF SockLen(addr) # cur.length THEN type
  ELSE IF addr.sa_family = "AF_INET"
  THEN IF And(And(addr.bytes, cur.netmask.bytes), cur.network.bytes)
            = cur.network.bytes
       THEN "GNUNET_ATS_NET_LAN" ELSE type
  ELSE IF addr.sa_family = "AF_INET6"
  THEN IF \A c \in 0..3 : \A k \in 1..4 :
            LET i == 4 * c + k IN
            BitOr(BitAnd(addr.bytes[i], cur.netmask.bytes[i]),
                  cur.network.bytes[i]) = cur.network.bytes[i]
       THEN "GNUNET_ATS_NET_LAN" ELSE type
  ELSE type

RECURSIVE CheckNetworks(_, _, _, _)
CheckNetworks(addr, table, i, type) ==
  IF i > Len(table) \/ type # "GNUNET_ATS_NET_UNSPECIFIED" THEN type
  ELSE CheckNetworks(addr, table, i + 1, CheckNetwork(addr, table[i], type))

\* the value of the returned GNUNET_ATS_Information (GNUNET_ATS_NETWORK_TYPE)
GAS_addresses_type(addr, table) ==
  LET t4 == IF addr.sa_family = "AF_INET"
               /\ And(And(addr.bytes, <<255, 0, 0, 0>>), <<127, 0, 0, 0>>)
                    = <<127, 0, 0, 0>>
            THEN "GNUNET_ATS_NET_LOOPBACK" ELSE "GNUNET_ATS_NET_UNSPECIFIED"
      t6 == IF addr.sa_family = "AF_INET6" /\ IN6_IS_ADDR_LOOPBACK(addr.bytes)
            THEN "GNUNET_ATS_NET_LOOPBACK" ELSE t4
      type == CheckNetworks(addr, table, 1, t6)
  IN IF type = "GNUNET_ATS_NET_UNSPECIFIED" THEN "GNUNET_ATS_NET_WAN" ELSE type

\* ------------------------------------------------------------ interface_proc
\* the table after the interface ifc was reported (GNUNET_CONTAINER_DLL_insert
\* puts the new entry at the head)
interface_proc(table, ifc) ==
  LET net == [network |-> [sa_family |-> ifc.addr.sa_family,
                           bytes |-> And(ifc.addr.bytes, ifc.netmask.bytes)],
              netmask |-> ifc.netmask,
              length |-> SockLen(ifc.addr)]
  IN <<net>> \o table

RECURSIVE ListInterfaces(_, _, _)
ListInterfaces(table, ifs, i) ==
  IF i > Len(ifs) THEN table
  ELSE ListInterfaces(interface_proc(table, ifs[i]), ifs, i + 1)

delete_networks(table) == <<>>

\* variant: the task is scheduled again but its identifier is not kept
get_addresses_forget(id) == NO_TASK

\* line 672: the identifier of the next run is kept in interface_task
get_addresses_keep(id) == id

\* the task: the table is rebuilt from the interfaces the host has now, and
\* the task is scheduled again
get_addresses ==
  /\ \E ifs \in InterfaceLists :
       net_head' = ListInterfaces(delete_networks(net_head), ifs, 1)
  /\ typed' = NoAnswer
  /\ \E t \in pending :
       /\ t.task = "get_addresses"
       /\ LET id == SCHEDULER_add(pending \ {t}, {next_step})
          IN /\ pending' = (pending \ {t}) \cup {Task(id, "get_addresses")}
             /\ interface_task' = get_addresses_keep(id)
  /\ UNCHANGED <<next_step, freed>>

Classify ==
  \E addr \in SockAddrs :
    /\ typed' = [addr |-> addr, value |-> GAS_addresses_type(addr, net_head)]
    /\ UNCHANGED net_head

\* ============================================================ RIL solver
\* libgnunet_plugin_ats_ril.c.  The counters of struct RIL_Network and the
\* bandwidth of an agent are unsigned long long in the code; the model holds
\* the mathematical value, so a negative number here is a counter that wrapped
\* below zero (the code then holds the value plus 2^64).
\* A struct ATS_Address lives in ats_addresses under its identity (its place
\* in memory); live = FALSE is a record the service has freed after s_del, whose
\* place a later address may take.
\* The weights, the trace and the state features are double in the code; the
\* model counts the trace in tenths (gamma * lambda = 0.5 * 0.6 is 3, the
\* accumulated 1 is 10) and takes alpha * delta, which comes from the
\* preferences and properties of the callbacks, from the set Deltas.
RilPeerOf(id) == ((id - 1) % NumRilPeers) + 1
RilPeers == 1..NumRilPeers
RilAddrs == 1..MaxRilAddrs
RilNetTypes == <<"GNUNET_ATS_NET_WAN", "GNUNET_ATS_NET_LAN">>
Deltas == {1}
RIL_FEATURES_ADDRESS_COUNT == 3 + GNUNET_ATS_QualityPropertiesCount

Zeros(k) == [i \in 1..k |-> 0]

\* GNUNET_array_grow: the old content followed by zeroed new slots
array_grow(arr, tsize) == arr \o Zeros(tsize - Len(arr))

\* position of the agent of peer in the agents list, 0 for NULL
ril_find_agent(rs, peer) ==
  LET hits == {i \in 1..Len(rs.agents) : rs.agents[i].peer = peer}
  IN IF hits = {} THEN 0 ELSE CHOOSE i \in hits : TRUE

\* position of the network entry with the type, 0 for NULL
ril_get_network(rs, type) ==
  LET hits == {i \in 1..Len(rs.nets) : rs.nets[i].type = type}
  IN IF hits = {} THEN 0 ELSE CHOOSE i \in hits : \A j \in hits : i <= j

ril_network_is_active(rs, type) ==
  ~(rs.nets[ril_get_network(rs, type)].bw_out_available < min_bw)

\* index of the address in the agent's list, starting with zero; the index of
\* the last element when the address is not in the list, -1 for an empty list
agent_address_get_index(agent, id) ==
  LET hits == {i \in 1..Len(agent.addresses) : agent.addresses[i] = id}
  IN IF hits = {} THEN Len(agent.addresses) - 1
     ELSE (CHOOSE i \in hits : \A j \in hits : i <= j) - 1

\* TRUE when the wrapped address is in the list (not NULL)
agent_address_get(agent, id) ==
  \E i \in 1..Len(agent.addresses) : agent.addresses[i] = id

\* the call of bandwidth_changed_cb with the address as it is at the call
BwChanged(rs, id) ==
  [id |-> id, peer |-> rs.addr[id].peer, active |-> rs.addr[id].active,
   assigned_bw_in |-> rs.addr[id].assigned_bw_in,
   assigned_bw_out |-> rs.addr[id].assigned_bw_out]

\* ------------------------------------------------------------ envi_set_active_suggestion
\* variant: the callback is made for inactive agents too
may_notify_inactive(notify, active, silent) == notify /\ ~silent

\* line 568: the condition of the callback
may_notify(notify, active, silent) == notify /\ active /\ ~silent

\* ai is the position of the agent, new_address an identity or 0 for NULL
envi_set_active_suggestion(rs, ai, new_address, new_bw_in, new_bw_out, silent) ==
  LET agent == rs.agents[ai]
      inuse == agent.address_inuse
      change == inuse # new_address
      \* address change
      a1 == IF change /\ inuse # 0
            THEN [rs.addr EXCEPT ![inuse].active = FALSE,
                                 ![inuse].assigned_bw_in = 0,
                                 ![inuse].assigned_bw_out = 0]
            ELSE rs.addr
      a2 == IF change /\ new_address # 0
            THEN [a1 EXCEPT ![new_address].active = agent.active,
                            ![new_address].assigned_bw_in = agent.bw_in,
                            ![new_address].assigned_bw_out = agent.bw_out]
            ELSE a1
      \* activity change
      a3 == IF new_address # 0
            THEN [a2 EXCEPT ![new_address].active = agent.active]
            ELSE a2
      \* bw change
      in_changed == new_address # 0 /\ agent.bw_in # new_bw_in
      out_changed == new_address # 0 /\ agent.bw_out # new_bw_out
      a4 == IF in_changed
            THEN [a3 EXCEPT ![new_address].assigned_bw_in = new_bw_out]
            ELSE a3
      a5 == IF out_changed
            THEN [a4 EXCEPT ![new_address].assigned_bw_out = new_bw_out]
            ELSE a4
      g1 == [agent EXCEPT !.bw_in = IF in_changed THEN new_bw_in ELSE @,
                          !.bw_out = IF out_changed THEN new_bw_out ELSE @]
      notify == change \/ in_changed \/ out_changed
      tell == may_notify(notify, agent.active, silent)
      disconnect == tell /\ new_address = 0 /\ inuse # 0
      g2 == IF disconnect THEN [g1 EXCEPT !.bw_in = 0, !.bw_out = 0] ELSE g1
      r5 == [rs EXCEPT !.addr = a5]
      out == IF tell /\ new_address # 0 THEN <<BwChanged(r5, new_address)>>
             ELSE IF disconnect THEN <<BwChanged(r5, inuse)>>
             ELSE <<>>
  IN [r5 EXCEPT !.agents[ai] = [g2 EXCEPT !.address_inuse = new_address],
                !.out = @ \o out]

\* ------------------------------------------------------------ envi_get_state
\* the features of the networks, then those of the agent's addresses; the
\* properties of get_property are the normalized value 1
AddressFeatures(rs, agent, id) ==
  <<IF rs.addr[id].active THEN 1 ELSE 0,
    IF rs.addr[id].active THEN agent.bw_in ELSE 0,
    IF rs.addr[id].active THEN agent.bw_out ELSE 0>>
  \o [k \in 1..GNUNET_ATS_QualityPropertiesCount |-> 1]

RECURSIVE Features(_, _, _)
Features(rs, agent, i) ==
  IF i > Len(agent.addresses) THEN <<>>
  ELSE AddressFeatures(rs, agent, agent.addresses[i]) \o Features(rs, agent, i + 1)

RECURSIVE NetFeatures(_, _)
NetFeatures(rs, i) ==
  IF i > Len(rs.nets) THEN <<>>
  ELSE <<rs.nets[i].bw_in_assigned, rs.nets[i].bw_in_available,
         rs.nets[i].bw_out_assigned, rs.nets[i].bw_out_available>>
       \o NetFeatures(rs, i + 1)

\* a zeroed vector of agent->m slots with the features written from slot 0
envi_get_state(rs, agent) ==
  LET f == NetFeatures(rs, 1) \o Features(rs, agent, 1)
  IN [i \in 1..agent.m |-> IF i <= Len(f) THEN f[i] ELSE 0]

\* ------------------------------------------------------------ agent_init
agent_init(rs, peer) ==
  LET a0 == [peer |-> peer, step_count |-> 0, active |-> FALSE,
             n |-> RIL_ACTION_TYPE_NUM,
             m |-> Len(rs.nets) * RIL_FEATURES_NETWORK_COUNT,
             W |-> [i \in 1..RIL_ACTION_TYPE_NUM |->
                      Zeros(Len(rs.nets) * RIL_FEATURES_NETWORK_COUNT)],
             a_old |-> RIL_ACTION_INVALID,
             s_old |-> <<>>,
             e |-> Zeros(Len(rs.nets) * RIL_FEATURES_NETWORK_COUNT),
             address_inuse |-> 0, addresses |-> <<>>,
             bw_in |-> 0, bw_out |-> 0]
  IN [rs EXCEPT !.agents = @ \o <<[a0 EXCEPT !.s_old = envi_get_state(rs, a0)]>>]

\* the state in which the agent of the peer exists (create = GNUNET_YES)
ril_get_agent(rs, peer) ==
  IF ril_find_agent(rs, peer) # 0 THEN rs ELSE agent_init(rs, peer)

\* ------------------------------------------------------------ GAS_ril_address_add
\* variant: the eligibility trace is not grown
GAS_ril_address_add_shorttrace(rs, id, network) ==
  LET net == ril_get_network(rs, network)
      r1 == [rs EXCEPT !.addr[id].solver_information = net]
  IN IF ~ril_network_is_active(r1, network) THEN r1
     ELSE
       LET r2 == ril_get_agent(r1, r1.addr[id].peer)
           ai == ril_find_agent(r2, r1.addr[id].peer)
           agent == r2.agents[ai]
           m_new == agent.m + RIL_FEATURES_ADDRESS_COUNT
           n_old == agent.n
           g == [agent EXCEPT
                   !.addresses = Append(@, id),
                   !.W = [i \in 1..(n_old + 1) |->
                            IF i <= n_old THEN array_grow(agent.W[i], m_new)
                            ELSE array_grow(<<>>, m_new)],
                   !.n = n_old + 1,
                   !.s_old = array_grow(@, m_new),
                   !.m = m_new]
           r3 == [r2 EXCEPT !.agents[ai] = g]
       IN IF agent.address_inuse = 0
          THEN envi_set_active_suggestion(
                 [r3 EXCEPT !.nets[net].bw_in_assigned = @ + min_bw,
                            !.nets[net].bw_out_assigned = @ + min_bw],
                 ai, id, min_bw, min_bw, FALSE)
          ELSE r3

\* variant: the rows of the old actions are reallocated zeroed
GAS_ril_address_add_forget(rs, id, network) ==
  LET net == ril_get_network(rs, network)
      r1 == [rs EXCEPT !.addr[id].solver_information = net]
  IN IF ~ril_network_is_active(r1, network) THEN r1
     ELSE
       LET r2 == ril_get_agent(r1, r1.addr[id].peer)
           ai == ril_find_agent(r2, r1.addr[id].peer)
           agent == r2.agents[ai]
           m_new == agent.m + RIL_FEATURES_ADDRESS_COUNT
           n_old == agent.n
           g == [agent EXCEPT
                   !.addresses = Append(@, id),
                   !.W = [i \in 1..(n_old + 1) |-> array_grow(<<>>, m_new)],
                   !.n = n_old + 1,
                   !.s_old = array_grow(@, m_new),
                   !.e = array_grow(@, m_new),
                   !.m = m_new]
           r3 == [r2 EXCEPT !.agents[ai] = g]
       IN IF agent.address_inuse = 0
          THEN envi_set_active_suggestion(
                 [r3 EXCEPT !.nets[net].bw_in_assigned = @ + min_bw,
                            !.nets[net].bw_out_assigned = @ + min_bw],
                 ai, id, min_bw, min_bw, FALSE)
          ELSE r3

GAS_ril_address_add(rs, id, network) ==
  LET net == ril_get_network(rs, network)
      r1 == [rs EXCEPT !.addr[id].solver_information = net]
  IN IF ~ril_network_is_active(r1, network) THEN r1
     ELSE
       LET r2 == ril_get_agent(r1, r1.addr[id].peer)
           ai == ril_find_agent(r2, r1.addr[id].peer)
           agent == r2.agents[ai]
           m_new == agent.m + RIL_FEATURES_ADDRESS_COUNT
           n_old == agent.n
           g == [agent EXCEPT
                   !.addresses = Append(@, id),
                   !.W = [i \in 1..(n_old + 1) |->
                            IF i <= n_old THEN array_grow(agent.W[i], m_new)
                            ELSE array_grow(<<>>, m_new)],
                   !.n = n_old + 1,
                   !.s_old = array_grow(@, m_new),
                   !.e = array_grow(@, m_new),
                   !.m = m_new]
           r3 == [r2 EXCEPT !.agents[ai] = g]
       IN IF agent.address_inuse = 0
          THEN envi_set_active_suggestion(
                 [r3 EXCEPT !.nets[net].bw_in_assigned = @ + min_bw,
                            !.nets[net].bw_out_assigned = @ + min_bw],
                 ai, id, min_bw, min_bw, FALSE)
          ELSE r3

\* ------------------------------------------------------------ ril_cut_from_vector
\* variant: the hole starts one element late
ril_cut_from_vector_late(old, hole_start, hole_length, old_length) ==
  SubSeq(old, 1, hole_start + 1)
    \o SubSeq(old, hole_start + hole_length + 2, old_length)

\* the vector without the hole_length elements from hole_start (counted from 0)
ril_cut_from_vector(old, hole_start, hole_length, old_length) ==
  SubSeq(old, 1, hole_start)
    \o SubSeq(old, hole_start + hole_length + 1, old_length)

\* the two assertions of ril_cut_from_vector
cut_asserted(hole_start, hole_length, old_length) ==
  old_length > hole_length /\ old_length >= hole_start + hole_length

\* ------------------------------------------------------------ GAS_ril_address_delete
\* variant: the last action is not corrected
correct_last_action_keep(a_old, address_index) == a_old

\* variant: the last action is shifted but never invalidated
correct_last_action_shift(a_old, address_index) ==
  IF a_old > RIL_ACTION_TYPE_NUM + address_index THEN a_old - 1 ELSE a_old

\* lines 1515-1523: the last action after the row of address_index is gone
correct_last_action(a_old, address_index) ==
  IF a_old > RIL_ACTION_TYPE_NUM + address_index THEN a_old - 1
  ELSE IF a_old = RIL_ACTION_TYPE_NUM + address_index THEN RIL_ACTION_INVALID
  ELSE a_old

GAS_ril_address_delete(rs, id) ==
  LET address_was_used == rs.addr[id].active
      ai == ril_find_agent(rs, rs.addr[id].peer)
      own == rs.nets[rs.addr[id].solver_information].type
  IN IF ai = 0
     THEN [rs EXCEPT !.abort = @ \/ ril_network_is_active(rs, own)]
     ELSE IF ~agent_address_get(rs.agents[ai], id)
     THEN [rs EXCEPT !.abort = @ \/ ril_network_is_active(rs, own)]
     ELSE
       LET agent == rs.agents[ai]
           address_index == agent_address_get_index(agent, id)
           hole == Len(rs.nets) * RIL_FEATURES_NETWORK_COUNT
                   + address_index * RIL_FEATURES_ADDRESS_COUNT
           cut(v) == ril_cut_from_vector(v, hole, RIL_FEATURES_ADDRESS_COUNT, agent.m)
           rows == [i \in 1..agent.n |-> cut(agent.W[i])]
           g == [agent EXCEPT
                   !.addresses = RemoveAt(@, address_index + 1),
                   !.W = ril_cut_from_vector(rows, RIL_ACTION_TYPE_NUM + address_index,
                                             1, agent.n),
                   !.a_old = correct_last_action(@, address_index),
                   !.s_old = cut(@),
                   !.e = cut(@),
                   !.m = agent.m - RIL_FEATURES_ADDRESS_COUNT,
                   !.n = agent.n - 1]
           r1 == [rs EXCEPT
                    !.agents[ai] = g,
                    !.abort = @ \/ ~cut_asserted(hole, RIL_FEATURES_ADDRESS_COUNT, agent.m)
                                \/ ~cut_asserted(RIL_ACTION_TYPE_NUM + address_index, 1,
                                                 agent.n)]
       IN IF ~address_was_used THEN r1
          ELSE
            LET net == rs.addr[id].solver_information
                r2 == [r1 EXCEPT !.nets[net].bw_in_assigned = @ - agent.bw_in,
                                 !.nets[net].bw_out_assigned = @ - agent.bw_out]
            IN IF Len(g.addresses) > 0
               THEN LET r3 == envi_set_active_suggestion(r2, ai, g.addresses[1],
                                                         min_bw, min_bw, FALSE)
                        left == r3.addr[g.addresses[1]].solver_information
                    IN [r3 EXCEPT !.nets[left].bw_in_assigned = @ - min_bw,
                                  !.nets[left].bw_out_assigned = @ - min_bw]
               ELSE envi_set_active_suggestion(r2, ai, 0, 0, 0, FALSE)

\* ------------------------------------------------------------ GAS_ril_address_change_network
GAS_ril_address_change_network(rs, id, current_network, new_network) ==
  IF rs.addr[id].active /\ ~ril_network_is_active(rs, new_network)
  THEN GAS_ril_address_delete(rs, id)
  ELSE IF ril_find_agent(rs, rs.addr[id].peer) = 0
  THEN GAS_ril_address_add(
         [rs EXCEPT !.abort = @ \/ ril_network_is_active(rs, current_network)],
         id, new_network)
  ELSE
    LET agent == rs.agents[ril_find_agent(rs, rs.addr[id].peer)]
        cur == ril_get_network(rs, current_network)
        new == ril_get_network(rs, new_network)
        r1 == [rs EXCEPT !.nets[cur].bw_in_assigned = @ - agent.bw_in,
                         !.nets[cur].bw_out_assigned = @ - agent.bw_out]
    IN [r1 EXCEPT !.nets[new].bw_in_assigned = @ - min_bw,
                  !.nets[new].bw_out_assigned = @ - min_bw,
                  !.addr[id].solver_information = new]

\* ------------------------------------------------------------ GAS_ril_get_preferred_address
GAS_ril_get_preferred_address(rs, peer) ==
  LET r1 == ril_get_agent(rs, peer)
      ai == ril_find_agent(r1, peer)
      agent == r1.agents[ai]
      inuse == agent.address_inuse
      r2 == [r1 EXCEPT !.agents[ai].active = TRUE]
      r3 == IF inuse # 0
            THEN LET net == r2.addr[inuse].solver_information
                 IN [r2 EXCEPT !.nets[net].bw_in_assigned = @ + agent.bw_in,
                               !.nets[net].bw_out_assigned = @ + agent.bw_out]
            ELSE r2
  IN envi_set_active_suggestion(r3, ai, inuse, agent.bw_in, agent.bw_out, TRUE)

\* ------------------------------------------------------------ GAS_ril_stop_get_preferred_address
GAS_ril_stop_get_preferred_address(rs, peer) ==
  LET ai == ril_find_agent(rs, peer) IN
  IF ai = 0 THEN rs
  ELSE IF ~rs.agents[ai].active THEN rs
  ELSE
    LET agent == rs.agents[ai]
        inuse == agent.address_inuse
        r2 == [rs EXCEPT !.agents[ai].active = FALSE]
        r3 == IF inuse # 0
              THEN LET net == r2.addr[inuse].solver_information
                   IN [r2 EXCEPT !.nets[net].bw_in_assigned = @ - agent.bw_in,
                                 !.nets[net].bw_out_assigned = @ - agent.bw_out]
              ELSE r2
    IN envi_set_active_suggestion(r3, ai, inuse, agent.bw_in, agent.bw_out, TRUE)

\* ------------------------------------------------------------ envi_do_action
\* new_bw < min_bw for an unsigned new_bw: a value that wrapped below zero is
\* above every minimum
below_min(new_bw) == new_bw >= 0 /\ new_bw < min_bw

envi_do_action(rs, ai, action) ==
  LET agent == rs.agents[ai]
      inuse == agent.address_inuse
      bw_in == agent.bw_in
      bw_out == agent.bw_out
      floor(new_bw) == IF below_min(new_bw) THEN min_bw ELSE new_bw
      set(i, o) == envi_set_active_suggestion(rs, ai, inuse, i, o, FALSE)
  IN CASE action = 0 -> rs
       [] action = 1 -> set(bw_in * 2, bw_out)
       [] action = 2 -> set(floor(bw_in \div 2), bw_out)
       [] action = 3 -> set(bw_in + 5 * min_bw, bw_out)
       [] action = 4 -> set(floor(bw_in - 5 * min_bw), bw_out)
       [] action = 5 -> set(bw_in, bw_out * 2)
       [] action = 6 -> set(bw_in, floor(bw_out \div 2))
       [] action = 7 -> set(bw_in, bw_out + 5 * min_bw)
       [] action = 8 -> set(bw_in, floor(bw_out - 5 * min_bw))
       [] action >= RIL_ACTION_TYPE_NUM /\ action < agent.n ->
            envi_set_active_suggestion(
              rs, ai, agent.addresses[action - RIL_ACTION_TYPE_NUM + 1],
              bw_in, bw_out, FALSE)
       [] OTHER -> [rs EXCEPT !.abort = TRUE]

\* ------------------------------------------------------------ agent_step
\* agent_update_weights: theta[i] += alpha * delta * e[i] on the row of a_old
agent_update_weights(agent, e, d) ==
  IF agent.a_old = RIL_ACTION_INVALID THEN agent.W
  ELSE [agent.W EXCEPT ![agent.a_old + 1] =
          [i \in 1..agent.m |-> @[i] + d * e[i]]]

\* c = [a_next, explore, d]: the action chosen, whether it was chosen by
\* exploration, and alpha * delta of this step
agent_step(rs, ai, c) ==
  LET agent == rs.agents[ai]
      s_next == envi_get_state(rs, agent)
      set == [i \in 1..agent.m |-> 3]
      zero == [i \in 1..agent.m |-> 0]
      W1 == IF rs.algorithm = "RIL_ALGO_SARSA"
            THEN agent_update_weights(agent, set, c.d)
            ELSE agent_update_weights(agent, agent.e, c.d)
      e1 == IF rs.algorithm = "RIL_ALGO_SARSA" THEN set
            ELSE IF c.explore THEN zero ELSE set
      e2 == [i \in 1..agent.m |-> e1[i] + 10]
      r1 == envi_do_action([rs EXCEPT !.agents[ai].W = W1, !.agents[ai].e = e2],
                           ai, c.a_next)
  IN [r1 EXCEPT !.agents[ai].s_old = s_next,
                !.agents[ai].a_old = c.a_next,
                !.agents[ai].step_count = @ + 1]

\* ------------------------------------------------------------ ril_periodic_step
\* variant: every active agent steps
may_step_active(agent) == agent.active

\* line 1024: the agents that do a step
may_step(agent) == agent.active /\ agent.address_inuse # 0

RECURSIVE StepAgents(_, _, _)
StepAgents(rs, ch, i) ==
  IF i > Len(rs.agents) THEN rs
  ELSE IF may_step(rs.agents[i])
  THEN StepAgents(agent_step(rs, i, ch[rs.agents[i].peer]), ch, i + 1)
  ELSE StepAgents(rs, ch, i + 1)

ril_periodic_step(rs, ch) ==
  [StepAgents(rs, ch, 1) EXCEPT !.step_count = @ + 1]

\* ------------------------------------------------------------ libgnunet_plugin_ats_ril_init
\* quota[c] is the in and out quota of network c
\* the record of the last call: the entry point, the peer it was about and,
\* for a delete, the list index of the address it removed
RilCalled(op, peer, index) == [op |-> op, peer |-> peer, index |-> index]

RilInit(quota, algorithm) ==
  /\ solver = [step_count |-> 0, algorithm |-> algorithm,
               nets |-> [c \in 1..Len(RilNetTypes) |->
                           [type |-> RilNetTypes[c],
                            bw_in_available |-> quota[c], bw_in_assigned |-> 0,
                            bw_out_available |-> quota[c], bw_out_assigned |-> 0]],
               agents |-> <<>>]
  /\ ats_addresses = [id \in RilAddrs |->
                        [peer |-> RilPeerOf(id), active |-> FALSE,
                         assigned_bw_in |-> 0, assigned_bw_out |-> 0,
                         solver_information |-> 0, network |-> RilNetTypes[1],
                         live |-> FALSE]]
  /\ bw_changed = <<>>
  /\ ril_abort = FALSE
  /\ rcall = RilCalled("init", 0, -1)

\* ============================================================ core sessions
\* core/gnunet-service-core_sessions.c (unnamed/part_004).  The model has the
\* session of one peer.  A message of the queue is [size, deadline]; sizes and
\* times are small numbers: GNUNET_CONSTANTS_MAX_ENCRYPTED_MESSAGE_SIZE is
\* MaxEncrypted, GNUNET_CONSTANTS_MAX_CORK_DELAY is CorkDelay (their header
\* is not among the sources), GNUNET_TIME_UNIT_FOREVER_ABS is a time after
\* every deadline.
FOREVER_ABS == MaxTime + CorkDelay + 1

Min(a, b) == IF a <= b THEN a ELSE b

\* lines 457-464: the messages that fit into one encrypted message, from the
\* i-th on
RECURSIVE Batch(_, _, _)
Batch(sme, i, acc) ==
  IF i <= Len(sme) /\ acc.msize + sme[i].size <= MaxEncrypted
  THEN Batch(sme, i + 1,
             [msize |-> acc.msize + sme[i].size,
              min_deadline |-> Min(acc.min_deadline, sme[i].deadline)])
  ELSE acc

\* lines 492-498: the copy loop; pos stays at the i-th message, so a message
\* of size zero is never left
RECURSIVE CopyBatch(_, _, _, _)
CopyBatch(sme, i, used, msize) ==
  IF i <= Len(sme) /\ used + sme[i].size <= msize
  THEN IF sme[i].size = 0 THEN [used |-> used, hang |-> TRUE]
       ELSE CopyBatch(sme, i, used + sme[i].size, msize)
  ELSE [used |-> used, hang |-> FALSE]

\* ------------------------------------------------------------ try_transmission
\* st = [session, tasks, result, used, null_read, abort]
try_transmission(st, t) ==
  IF ~st.session.ready_to_transmit THEN [st EXCEPT !.result = "not ready"]
  ELSE
    LET sme == st.session.sme
        s1 == [st EXCEPT !.null_read = @ \/ sme = <<>>]
    IN IF sme # <<>> /\ ~(sme[1].size < MaxEncrypted)
       THEN [s1 EXCEPT !.abort = TRUE]
       ELSE
         LET b == Batch(sme, 1, [msize |-> 0, min_deadline |-> FOREVER_ABS])
         IN IF b.msize = 0
               \/ (b.msize < MaxEncrypted \div 2 /\ b.min_deadline > t)
            THEN IF b.msize > 0
                 THEN LET left == IF s1.session.cork_task # NO_TASK
                                  THEN SCHEDULER_cancel(s1.tasks, s1.session.cork_task)
                                  ELSE s1.tasks
                          id == SCHEDULER_add(left, {interface_task, next_step})
                      IN [s1 EXCEPT
                            !.abort = @ \/ (s1.session.cork_task # NO_TASK /\
                                            ~SCHEDULER_valid(s1.tasks,
                                                             s1.session.cork_task)),
                            !.tasks = left \cup {Task(id, "pop_cork_task")},
                            !.session.cork_task = id,
                            !.result = "corked"]
                 ELSE [s1 EXCEPT !.result = "solicited"]
            ELSE LET c == CopyBatch(sme, 1, 0, b.msize)
                 IN IF c.hang THEN [s1 EXCEPT !.result = "hang"]
                    ELSE [s1 EXCEPT !.session.ready_to_transmit = FALSE,
                                    !.result = "transmitted",
                                    !.used = c.used,
                                    !.msize = b.msize]

\* the state of a call on the session
OnSession(s) ==
  [session |-> s, tasks |-> pending, result |-> "", used |-> 0, msize |-> 0,
   null_read |-> FALSE, abort |-> FALSE]

\* GSC_SESSIONS_create
SessionInit ==
  /\ session = [ready_to_transmit |-> FALSE, sme |-> <<>>, cork_task |-> NO_TASK]
  /\ now = 0
  /\ tx = [op |-> "init", result |-> "", used |-> 0, msize |-> 0]
  /\ core_abort = FALSE

\* ============================================================ regex client
\* regex/regex_api.c.  An announcement lives in announcements under its
\* identity (its place in memory): state is "unused", "live" or "freed", held
\* tells whether the caller still has the handle GNUNET_REGEX_announce gave
\* it.  The client library is outside the sources; it is modelled by what the
\* code relies on: GNUNET_CLIENT_connect and
\* GNUNET_CLIENT_notify_transmit_ready succeed or return NULL, and a transmit
\* handle is used up when its callback is called.  active_transmission is
\* "NULL", "pending" (the handle of a request that is pending) or "stale" (a
\* handle whose request is not pending any more).
Announcements == 1..MaxAnnounce

\* GNUNET_malloc and the assignments of GNUNET_REGEX_announce_with_key
NewAnnouncement ==
  [state |-> "live", held |-> FALSE, client |-> "NULL",
   active_transmission |-> "NULL"]

\* ------------------------------------------------------------ GNUNET_REGEX_announce_cancel
\* st = [a, stale_cancel, use_after_free]
GNUNET_REGEX_announce_cancel(st) ==
  [a |-> [st.a EXCEPT !.state = "freed"],
   stale_cancel |-> st.stale_cancel \/ st.a.active_transmission = "stale",
   use_after_free |-> st.use_after_free \/ st.a.state # "live",
   result |-> FALSE]

\* ------------------------------------------------------------ send_announcement_to_service
\* connect and ready tell whether GNUNET_CLIENT_connect and
\* GNUNET_CLIENT_notify_transmit_ready succeed
send_announcement_to_service(st, connect, ready) ==
  IF st.a.client = "NULL" /\ ~connect
  THEN GNUNET_REGEX_announce_cancel(st)
  ELSE LET s1 == [st EXCEPT !.a.client = "open"]
       IN IF ~ready
          THEN GNUNET_REGEX_announce_cancel(s1)
          ELSE [s1 EXCEPT !.a.active_transmission = "pending",
                          !.result = TRUE]

\* ------------------------------------------------------------ announce_transmit_ready_cb
\* buf tells whether the callback gets a buffer that is large enough
announce_transmit_ready_cb(st, buf, connect, ready) ==
  IF ~buf
  THEN send_announcement_to_service([st EXCEPT !.a.client = "NULL"],
                                    connect, ready)
  ELSE [st EXCEPT !.a.active_transmission = "NULL"]

\* the state of a call on the announcement
OnAnnouncement(a) ==
  [a |-> a, stale_cancel |-> FALSE, use_after_free |-> FALSE, result |-> FALSE]

RegexCalled(op, h) == [op |-> op, a |-> h]

RegexInit ==
  /\ announcements = [h \in Announcements |->
                        [state |-> "unused", held |-> FALSE, client |-> "NULL",
                         active_transmission |-> "NULL"]]
  /\ regex_abort = FALSE
  /\ acall = RegexCalled("init", 0)

\* ------------------------------------------------------------ GAS_addresses_init
\* GAS_addresses_init schedules get_addresses (line 693) and the solver its
\* first step (line 1331)
SchedulerInit ==
  /\ pending = {Task(1, "get_addresses"), Task(2, "ril_periodic_step")}
  /\ interface_task = 1
  /\ next_step = 2
  /\ freed = {}

Init ==
  /\ wan_quota_in = WanQuotaIn
  /\ wan_quota_out = WanQuotaOut
  /\ addresses = [p \in Peers |-> <<>>]
  /\ active_addr_count = 0
  /\ sent = <<>>
  /\ aborted = FALSE
  /\ last = Called("init", 0, "", <<>>, 0)
  /\ net_head = <<>>
  /\ typed = NoAnswer
  /\ SchedulerInit
  /\ RegexInit
  /\ SessionInit
  /\ RilInit(<<RilQuota, RilQuota>>, "RIL_ALGO_Q")

\* ------------------------------------------------------------ callers
UpdateOn(Ps, Es, As) ==
  \E peer \in Ps, ep \in Es, session_id \in Sessions, atsi \in As :
    /\ GAS_addresses_update(peer, ep[1], ep[2], session_id, atsi)
    /\ last' = Called("update", peer, ep[1], ep[2], session_id)
    /\ UNCHANGED <<netvars, rilvars, timervars, extvars>>

DestroyOn(Ps, Es) ==
  \E peer \in Ps, ep \in Es, session_id \in Sessions :
    /\ GAS_addresses_destroy(peer, ep[1], ep[2], session_id)
    /\ last' = Called("destroy", peer, ep[1], ep[2], session_id)
    /\ UNCHANGED <<netvars, rilvars, timervars, extvars>>

RequestOn(Ps) ==
  \E peer \in Ps :
    /\ GAS_addresses_request_address(peer)
    /\ last' = Called("request", peer, "", <<>>, 0)
    /\ UNCHANGED <<netvars, rilvars, timervars, extvars>>

DestroyAllOn ==
  /\ GAS_addresses_destroy_all
  /\ last' = [op |-> "destroy_all", peer |-> 0, plugin |-> "", addr |-> <<>>,
              session_id |-> 0, active |-> active_addr_count]
  /\ UNCHANGED <<netvars, rilvars, timervars, extvars>>

\* Spec: every call on one peer, with every endpoint, session and metric
Update == UpdateOn(FocusPeers, Endpoints, AtsLists)
Destroy == DestroyOn(FocusPeers, Endpoints)
Request == RequestOn(FocusPeers)
DestroyAll == DestroyAllOn

Next == Update \/ Destroy \/ Request \/ DestroyAll

Spec == Init /\ [][Next]_vars

\* SpecLoad: every peer, each reported with one endpoint and no metrics
LoadUpdate == UpdateOn(Peers, LoadEndpoints, {<<>>})
LoadDestroy == DestroyOn(Peers, LoadEndpoints)
LoadRequest == RequestOn(Peers)
LoadDestroyAll == DestroyAllOn

NextLoad == LoadUpdate \/ LoadDestroy \/ LoadRequest \/ LoadDestroyAll

SpecLoad == Init /\ [][NextLoad]_vars

\* SpecMetric: updates with lists of up to two metrics, which the history
\* keeps, and requests
MetricLists == UNION {[1..n -> AtsInfo] : n \in 0..(MaxAtsi + 1)}

MetricUpdate ==
  \E peer \in FocusPeers, ep \in {<<"tcp", <<1>>>>, <<"udp", <<1>>>>},
     session_id \in Sessions, atsi \in MetricLists :
    /\ GAS_addresses_update(peer, ep[1], ep[2], session_id, atsi)
    /\ last' = [op |-> "update", peer |-> peer, plugin |-> ep[1],
                addr |-> ep[2], session_id |-> session_id, atsi |-> atsi]
    /\ UNCHANGED <<netvars, rilvars, timervars, extvars>>

NextMetric == MetricUpdate \/ Request

SpecMetric == Init /\ [][NextMetric]_vars

\* SpecNet: the interface task and the classification of addresses
RegistryIdle ==
  UNCHANGED <<addresses, active_addr_count, wan_quota_in, wan_quota_out,
              sent, aborted, last>>

NetScan == get_addresses /\ RegistryIdle /\ UNCHANGED <<rilvars, extvars>>
NetType == Classify /\ RegistryIdle /\ UNCHANGED <<rilvars, timervars, extvars>>

NextNet == NetScan \/ NetType

SpecNet == Init /\ [][NextNet]_vars

\* ------------------------------------------------------------ the solver API
\* the state the solver functions work on
RilState ==
  [step_count |-> solver.step_count, algorithm |-> solver.algorithm,
   nets |-> solver.nets, agents |-> solver.agents,
   addr |-> ats_addresses, out |-> <<>>, abort |-> FALSE]

\* the counters stay in the range the model follows
InRange(rs) ==
  \A c \in 1..Len(rs.nets) :
    /\ rs.nets[c].bw_in_assigned \in -MaxAssigned..MaxAssigned
    /\ rs.nets[c].bw_out_assigned \in -MaxAssigned..MaxAssigned

\* the process dies: on an access to freed memory, or in GNUNET_assert
Crash ==
  /\ ril_abort' = TRUE
  /\ bw_changed' = <<>>
  /\ UNCHANGED <<solver, ats_addresses>>

Commit(rs) ==
  IF rs.abort THEN Crash
  ELSE /\ InRange(rs)
       /\ solver' = [step_count |-> rs.step_count, algorithm |-> rs.algorithm,
                     nets |-> rs.nets, agents |-> rs.agents]
       /\ ats_addresses' = rs.addr
       /\ bw_changed' = rs.out
       /\ ril_abort' = FALSE

\* a call that reads or writes through a pointer to freed memory (or NULL)
\* either dies there or goes on with what the memory held
Outcome(hazard, rs) == IF hazard THEN Crash \/ Commit(rs) ELSE Commit(rs)

\* the address agent->address_inuse points to was freed
Dangling(agent) ==
  agent.address_inuse # 0 /\ ~ats_addresses[agent.address_inuse].live

RilIdle ==
  UNCHANGED <<addresses, active_addr_count, wan_quota_in, wan_quota_out,
              sent, aborted, last, netvars, timervars, extvars>>

\* s_add for an address the service has just allocated
RilAddOn(Cs) ==
  \E id \in RilAddrs, c \in Cs :
    /\ ~ril_abort
    /\ ~ats_addresses[id].live
    /\ LET fresh == [peer |-> RilPeerOf(id), active |-> FALSE,
                     assigned_bw_in |-> 0, assigned_bw_out |-> 0,
                     solver_information |-> 0, network |-> RilNetTypes[c],
                     live |-> TRUE]
       IN Commit(GAS_ril_address_add([RilState EXCEPT !.addr[id] = fresh],
                                     id, RilNetTypes[c]))
    /\ rcall' = RilCalled("add", RilPeerOf(id), -1)
    /\ RilIdle

RilAdd == RilAddOn(1..Len(RilNetTypes))

\* the record of a freed address: what it held while an agent still points to
\* it, nothing that can be told apart otherwise
Freed(rs, id) ==
  IF \E i \in 1..Len(rs.agents) : rs.agents[i].address_inuse = id
  THEN [rs.addr[id] EXCEPT !.live = FALSE]
  ELSE [peer |-> RilPeerOf(id), active |-> FALSE,
        assigned_bw_in |-> 0, assigned_bw_out |-> 0,
        solver_information |-> 0, network |-> RilNetTypes[1],
        live |-> FALSE]

\* s_del, after which the service frees the address
RilDelete ==
  \E id \in RilAddrs :
    /\ ~ril_abort
    /\ ats_addresses[id].live
    /\ LET rs == GAS_ril_address_delete(RilState, id)
           ai == ril_find_agent(RilState, RilPeerOf(id))
       IN Outcome(ai # 0 /\ ats_addresses[id].active
                    /\ Dangling(solver.agents[ai]),
                  [rs EXCEPT !.addr[id] = Freed(rs, id)])
    /\ rcall' = RilCalled("delete", RilPeerOf(id),
                         IF ril_find_agent(RilState, RilPeerOf(id)) = 0 THEN -1
                         ELSE agent_address_get_index(
                                solver.agents[ril_find_agent(RilState, RilPeerOf(id))],
                                id))
    /\ RilIdle

\* s_address_update_network, the address already carries the new network
RilChangeNetwork ==
  \E id \in RilAddrs, c \in 1..Len(RilNetTypes) :
    /\ ~ril_abort
    /\ ats_addresses[id].live
    /\ ats_addresses[id].network # RilNetTypes[c]
    /\ Commit(GAS_ril_address_change_network(
                [RilState EXCEPT !.addr[id].network = RilNetTypes[c]],
                id, ats_addresses[id].network, RilNetTypes[c]))
    /\ rcall' = RilCalled("change_network", RilPeerOf(id), -1)
    /\ RilIdle

RilGet ==
  \E peer \in RilPeers :
    /\ ~ril_abort
    /\ LET ai == ril_find_agent(RilState, peer)
       IN Outcome(ai # 0 /\ Dangling(solver.agents[ai]),
                  GAS_ril_get_preferred_address(RilState, peer))
    /\ rcall' = RilCalled("get", peer, -1)
    /\ RilIdle

\* the closing LOG of the function reads agent->address_inuse->plugin
RilStop ==
  \E peer \in RilPeers :
    /\ ~ril_abort
    /\ LET ai == ril_find_agent(RilState, peer)
       IN Outcome(ai # 0 /\ solver.agents[ai].active
                    /\ (solver.agents[ai].address_inuse = 0
                        \/ Dangling(solver.agents[ai])),
                  GAS_ril_stop_get_preferred_address(RilState, peer))
    /\ rcall' = RilCalled("stop", peer, -1)
    /\ RilIdle

\* the actions an agent is seen to choose: nothing, double the inbound
\* bandwidth, and every switch of address
StepActions == {0, 1} \cup
               RIL_ACTION_TYPE_NUM..(RIL_ACTION_TYPE_NUM + MaxRilAddrs - 1)

StepChoices(Actions) == [a_next : Actions, explore : BOOLEAN, d : Deltas]

\* the choice of an agent that does not step is fixed
ChoiceFits(ch) ==
  \A peer \in RilPeers :
    LET ai == ril_find_agent(RilState, peer)
    IN IF ai # 0 /\ may_step(solver.agents[ai])
       THEN /\ ch[peer].a_next < solver.agents[ai].n
            /\ (solver.algorithm = "RIL_ALGO_SARSA" => ~ch[peer].explore)
       ELSE ch[peer] = [a_next |-> 0, explore |-> FALSE, d |-> 1]

\* variant: the step does not schedule its next run
next_step_add_never(tasks, id) == tasks

\* line 1031: GNUNET_SCHEDULER_add_delayed (..., &ril_periodic_step, solver)
next_step_add_delayed(tasks, id) == tasks \cup {Task(id, "ril_periodic_step")}

RilTickOn(Actions) ==
  \E ch \in [RilPeers -> StepChoices(Actions)] :
    /\ ~ril_abort
    /\ solver.step_count < MaxSteps
    /\ ChoiceFits(ch)
    /\ Outcome(\E i \in 1..Len(solver.agents) :
                 solver.agents[i].active /\ Dangling(solver.agents[i]),
               ril_periodic_step(RilState, ch))
    /\ rcall' = RilCalled("step", 0, -1)
    /\ \E t \in pending :
         /\ t.task = "ril_periodic_step"
         /\ LET id == SCHEDULER_add(pending \ {t}, {interface_task, next_step})
            IN /\ pending' = next_step_add_delayed(pending \ {t}, id)
               /\ next_step' = id
    /\ UNCHANGED <<interface_task, freed>>
    /\ RegistryIdle
    /\ UNCHANGED <<netvars, extvars>>

RilTick == RilTickOn(StepActions)

\* SpecRil: the calls of the service, without the periodic step; the second
\* network has bandwidth or is without
NextRil == RilAdd \/ RilDelete \/ RilChangeNetwork \/ RilGet \/ RilStop

RegistryInit ==
  /\ wan_quota_in = WanQuotaIn
  /\ wan_quota_out = WanQuotaOut
  /\ addresses = [p \in Peers |-> <<>>]
  /\ active_addr_count = 0
  /\ sent = <<>>
  /\ aborted = FALSE
  /\ last = Called("init", 0, "", <<>>, 0)
  /\ net_head = <<>>
  /\ typed = NoAnswer
  /\ SchedulerInit
  /\ RegexInit
  /\ SessionInit

InitRil ==
  /\ RegistryInit
  /\ \E quota \in {<<RilQuota, RilQuota>>, <<RilQuota, 0>>} :
       RilInit(quota, "RIL_ALGO_Q")

SpecRil == InitRil /\ [][NextRil]_vars

\* SpecLearn: addresses of the first network come and go while the agents,
\* once activated, learn with either algorithm
NextLearn == RilAddOn({1}) \/ RilDelete \/ RilGet \/ RilTick

InitLearn ==
  /\ RegistryInit
  /\ \E algorithm \in {"RIL_ALGO_Q", "RIL_ALGO_SARSA"} :
       RilInit(<<RilQuota, RilQuota>>, algorithm)

SpecLearn == InitLearn /\ [][NextLearn]_vars

\* SpecZero: the addresses of an agent that does nothing but hold its
\* bandwidth come and go, while the registry knows an address of the second
\* peer only and is asked for the first two
NextZero ==
  \/ RilAddOn({1}) \/ RilDelete \/ RilGet \/ RilTickOn({0})
  \/ UpdateOn({2}, LoadEndpoints, {<<>>}) \/ RequestOn({1, 2})

SpecZero == InitLearn /\ [][NextZero]_vars

\* SpecNotify: requests start and stop while addresses of the first network
\* come and go and the agents switch between them
NextNotify ==
  \/ RilAddOn({1}) \/ RilDelete \/ RilGet \/ RilStop
  \/ RilTickOn(RIL_ACTION_TYPE_NUM..(RIL_ACTION_TYPE_NUM + MaxRilAddrs - 1))

SpecNotify == InitLearn /\ [][NextNotify]_vars

\* SpecRegex: a program announces, cancels its announcements, and the client
\* library calls back, with every outcome of connecting and of asking for a
\* transmission
\* a call that cancelled a stale transmit handle or used a freed announcement
\* either dies there or goes on
RegexCommit(h, st, held) ==
  \/ /\ announcements' = [announcements EXCEPT ![h] = [st.a EXCEPT !.held = held]]
     /\ regex_abort' = FALSE
  \/ /\ st.stale_cancel \/ st.use_after_free
     /\ regex_abort' = TRUE
     /\ UNCHANGED announcements

RegexIdle ==
  /\ RegistryIdle
  /\ UNCHANGED <<netvars, rilvars, timervars, corevars>>

\* GNUNET_REGEX_announce: the caller gets the handle when the first request
\* for transmission was made
Announce ==
  \E h \in Announcements, connect \in BOOLEAN, ready \in BOOLEAN :
    /\ ~regex_abort
    /\ announcements[h].state # "live"
    /\ ~announcements[h].held
    /\ LET st == send_announcement_to_service(OnAnnouncement(NewAnnouncement),
                                              connect, ready)
       IN RegexCommit(h, st, st.result)
    /\ acall' = RegexCalled("announce", h)
    /\ RegexIdle

\* the client library calls announce_transmit_ready_cb of a pending request
TransmitReady ==
  \E h \in Announcements, buf \in BOOLEAN, connect \in BOOLEAN,
     ready \in BOOLEAN :
    /\ ~regex_abort
    /\ announcements[h].state = "live"
    /\ announcements[h].active_transmission = "pending"
    /\ LET used == [announcements[h] EXCEPT !.active_transmission = "stale"]
           st == announce_transmit_ready_cb(OnAnnouncement(used), buf,
                                            connect, ready)
       IN RegexCommit(h, st, announcements[h].held)
    /\ acall' = RegexCalled("transmit_ready", h)
    /\ RegexIdle

\* the caller gives a handle back
AnnounceCancel ==
  \E h \in Announcements :
    /\ ~regex_abort
    /\ announcements[h].held
    /\ RegexCommit(h, GNUNET_REGEX_announce_cancel(
                        OnAnnouncement(announcements[h])), FALSE)
    /\ acall' = RegexCalled("cancel", h)
    /\ RegexIdle

NextRegex == Announce \/ TransmitReady \/ AnnounceCancel

SpecRegex == Init /\ [][NextRegex]_vars

\* SpecCore: the neighbours solicit traffic, clients hand over messages,
\* corked or not, messages are broadcast, time passes and the cork task runs
\* a call that read through a NULL or uninitialised pointer either dies there
\* or goes on; a failed assertion ends the process
CoreCommit(op, st, hazard) ==
  \/ /\ ~st.abort
     /\ st.result # "hang"
     /\ session' = st.session
     /\ pending' = st.tasks
     /\ tx' = [op |-> op, result |-> st.result, used |-> st.used,
               msize |-> st.msize]
     /\ core_abort' = FALSE
  \/ /\ st.abort \/ st.null_read \/ hazard
     /\ core_abort' = TRUE
     /\ tx' = [op |-> op, result |-> "died", used |-> 0, msize |-> 0]
     /\ UNCHANGED <<session, pending>>

CoreIdle ==
  /\ RegistryIdle
  /\ UNCHANGED <<netvars, rilvars, interface_task, next_step, freed, regexvars>>

\* GSC_SESSIONS_solicit
SessionsSolicit ==
  /\ ~core_abort
  /\ CoreCommit("solicit",
                try_transmission(
                  OnSession([session EXCEPT !.ready_to_transmit = TRUE]), now),
                FALSE)
  /\ UNCHANGED now
  /\ CoreIdle

\* GSC_SESSIONS_transmit: the message goes to the tail of the queue; the
\* deadline of a message that is not corked is the zero of GNUNET_malloc
SessionsTransmit ==
  \E size \in MessageSizes, cork \in BOOLEAN :
    /\ ~core_abort
    /\ Len(session.sme) < MaxQueue
    /\ LET sme == [size |-> size,
                   deadline |-> IF cork THEN now + CorkDelay ELSE 0]
       IN CoreCommit("transmit",
                     try_transmission(
                       OnSession([session EXCEPT !.sme = Append(@, sme)]), now),
                     FALSE)
    /\ UNCHANGED now
    /\ CoreIdle

\* GSC_SESSIONS_broadcast, do_send_message: the message goes to the head
SessionsBroadcast ==
  \E size \in MessageSizes :
    /\ ~core_abort
    /\ Len(session.sme) < MaxQueue
    /\ CoreCommit("broadcast",
                  try_transmission(
                    OnSession([session EXCEPT !.sme =
                                 <<[size |-> size, deadline |-> 0]>> \o @]), now),
                  FALSE)
    /\ UNCHANGED now
    /\ CoreIdle

\* pop_cork_task, run by the scheduler when the delay is over; its session
\* is the uninitialised `struct Session *session = session`
PopCork ==
  /\ ~core_abort
  /\ session.cork_task # NO_TASK
  /\ Task(session.cork_task, "pop_cork_task") \in pending
  /\ Batch(session.sme, 1,
           [msize |-> 0, min_deadline |-> FOREVER_ABS]).min_deadline <= now
  /\ LET st == [OnSession([session EXCEPT !.cork_task = NO_TASK]) EXCEPT
                  !.tasks = pending \ {Task(session.cork_task, "pop_cork_task")}]
     IN CoreCommit("pop_cork", try_transmission(st, now), TRUE)
  /\ UNCHANGED now
  /\ CoreIdle

\* time passes
Advance ==
  /\ ~core_abort
  /\ now < MaxTime
  /\ now' = now + 1
  /\ UNCHANGED <<session, tx, core_abort, pending>>
  /\ CoreIdle

NextCore ==
  SessionsSolicit \/ SessionsTransmit \/ SessionsBroadcast \/ PopCork \/ Advance

SpecCore == Init /\ [][NextCore]_vars

\* SpecTimer: the two tasks run, and each subsystem is shut down once
\* GAS_addresses_done
AddressesDone ==
  /\ ~aborted
  /\ "addresses" \notin freed
  /\ net_head' = delete_networks(net_head)
  /\ IF interface_task # NO_TASK /\ ~SCHEDULER_valid(pending, interface_task)
     THEN /\ aborted' = TRUE
          /\ UNCHANGED <<addresses, active_addr_count, wan_quota_in,
                         wan_quota_out, sent, pending, interface_task, freed>>
     ELSE /\ pending' = SCHEDULER_cancel(pending, interface_task)
          /\ interface_task' = NO_TASK
          /\ GAS_addresses_destroy_all
          /\ freed' = freed \cup {"addresses"}
  /\ last' = Called("done", 0, "", <<>>, 0)
  /\ UNCHANGED <<typed, rilvars, next_step, extvars>>

\* libgnunet_plugin_ats_ril_done
RilDone ==
  /\ ~ril_abort
  /\ "ril" \notin freed
  /\ IF ~SCHEDULER_valid(pending, next_step)
     THEN /\ ril_abort' = TRUE
          /\ UNCHANGED <<solver, pending, freed>>
     ELSE /\ solver' = [solver EXCEPT !.agents = <<>>]
          /\ pending' = SCHEDULER_cancel(pending, next_step)
          /\ freed' = freed \cup {"ril"}
          /\ ril_abort' = FALSE
  /\ bw_changed' = <<>>
  /\ rcall' = RilCalled("done", 0, -1)
  /\ UNCHANGED <<ats_addresses, interface_task, next_step>>
  /\ RegistryIdle
  /\ UNCHANGED <<netvars, extvars>>

NextTimer == NetScan \/ NetType \/ RilTick \/ AddressesDone \/ RilDone
SpecTimer == Init /\ [][NextTimer]_vars

\* SpecFair: until the solver is shut down addresses are added and requested;
\* the scheduler runs a task that stays pending
NextFair ==
  \/ "ril" \notin freed /\ (RilAddOn({1}) \/ RilGet)
  \/ RilTick
  \/ RilDone

SpecFair == InitLearn /\ [][NextFair]_vars /\ WF_vars(RilTick)

\* SpecAct: the agent of a peer with addresses is activated and chooses among
\* the eight bandwidth actions
BwActions == 0..(RIL_ACTION_TYPE_NUM - 1)
NextAct == RilAddOn({1}) \/ RilGet \/ RilTickOn(BwActions)
SpecAct == InitLearn /\ [][NextAct]_vars

\* ================================================================ properties
ActiveIdx(chain) == {i \in 1..Len(chain) : chain[i].active}

RECURSIVE CountActive(_, _)
CountActive(addrs, peer) ==
  IF peer > NumPeers THEN 0
  ELSE Cardinality(ActiveIdx(addrs[peer])) + CountActive(addrs, peer + 1)

RECURSIVE SumIn(_, _)
SumIn(chain, i) ==
  IF i > Len(chain) THEN 0
  ELSE (IF chain[i].active THEN chain[i].assigned_bw_in ELSE 0) + SumIn(chain, i + 1)

RECURSIVE SumOut(_, _)
SumOut(chain, i) ==
  IF i > Len(chain) THEN 0
  ELSE (IF chain[i].active THEN chain[i].assigned_bw_out ELSE 0) + SumOut(chain, i + 1)

RECURSIVE TotalIn(_)
TotalIn(peer) ==
  IF peer > NumPeers THEN 0 ELSE SumIn(addresses[peer], 1) + TotalIn(peer + 1)

RECURSIVE TotalOut(_)
TotalOut(peer) ==
  IF peer > NumPeers THEN 0 ELSE SumOut(addresses[peer], 1) + TotalOut(peer + 1)

SameEndpoint(a, b) == a.plugin = b.plugin /\ a.addr = b.addr

HasEndpoint(chain, a) == \E j \in 1..Len(chain) : SameEndpoint(chain[j], a)

\* every active address carries the equal share of the two quotas
EqualShares ==
  \A p \in Peers : \A i \in 1..Len(addresses[p]) :
    addresses[p][i].active =>
      /\ active_addr_count > 0
      /\ addresses[p][i].assigned_bw_in = wan_quota_in \div active_addr_count
      /\ addresses[p][i].assigned_bw_out = wan_quota_out \div active_addr_count

\* C1: every peer has at most one address with active = YES.
C1_AtMostOneActive ==
  \A p \in Peers : Cardinality(ActiveIdx(addresses[p])) <= 1

\* C2: active_addr_count equals the number of addresses in the registry whose
\* active flag is YES, after every operation.
C2_ActiveCountConsistent ==
  active_addr_count = CountActive(addresses, 1)

\* a destroy has removed or deactivated one of two active addresses and the
\* share of the remaining one was recomputed
C2_Witness ==
  /\ last.op = "destroy"
  /\ active_addr_count = 1
  /\ sent # <<>>
  /\ CountActive(addresses, 1) = 1

\* C3: no two addresses of the same peer have equal plugin name and equal raw
\* address bytes, so an update that repeats a known (plugin, raw) adds nothing.
C3_NoDuplicate ==
  \A p \in Peers : \A i, j \in 1..Len(addresses[p]) :
    (i # j) => ~SameEndpoint(addresses[p][i], addresses[p][j])

\* an update left the peer with two addresses of the same plugin and the same
\* length that differ only in their bytes
C3_Witness ==
  /\ last.op = "update"
  /\ \E i, j \in 1..Len(addresses[last.peer]) :
       /\ i # j
       /\ addresses[last.peer][i].plugin = addresses[last.peer][j].plugin
       /\ Len(addresses[last.peer][i].addr) = Len(addresses[last.peer][j].addr)
       /\ addresses[last.peer][i].addr # addresses[last.peer][j].addr
       /\ SameEndpoint(addresses[last.peer][i],
                       [plugin |-> last.plugin, addr |-> last.addr])

\* the record of endpoint a after a destroy for its session: gone if it has no
\* address bytes, otherwise still there with session_id 0
Downgraded(a, post) ==
  IF Len(a.addr) = 0
  THEN ~HasEndpoint(post, a)
  ELSE \E j \in 1..Len(post) : SameEndpoint(post[j], a) /\ post[j].session_id = 0

\* C4: GAS_addresses_destroy with a nonzero session_id s sets the session_id of
\* every address of the peer stored with session s to 0, removes it iff its raw
\* address length is zero and otherwise keeps it with session_id 0.
C4_SessionDowngrade ==
  [][(last'.op = "destroy" /\ last'.session_id # 0) =>
       \A i \in 1..Len(addresses[last'.peer]) :
         (addresses[last'.peer][i].session_id = last'.session_id) =>
           Downgraded(addresses[last'.peer][i], addresses'[last'.peer])]_vars

\* a destroy for a nonzero session deactivated an address with address bytes,
\* which stays in the registry with session_id 0 and its former share
C4_Witness ==
  /\ last.op = "destroy"
  /\ last.session_id # 0
  /\ sent # <<>>
  /\ \E i \in 1..Len(addresses[last.peer]) :
       /\ addresses[last.peer][i].session_id = 0
       /\ Len(addresses[last.peer][i].addr) > 0
       /\ ~addresses[last.peer][i].active
       /\ addresses[last.peer][i].assigned_bw_out > 0

\* C5: GAS_addresses_destroy with session_id 0 and a (plugin, raw) equal to a
\* stored address removes that address; if it was active, active_addr_count
\* drops by exactly one and every remaining active address has the share for
\* the new count.
C5_ExactDestroy ==
  [][(last'.op = "destroy" /\ last'.session_id = 0) =>
       \A i \in 1..Len(addresses[last'.peer]) :
         SameEndpoint(addresses[last'.peer][i], last') =>
           /\ ~HasEndpoint(addresses'[last'.peer], last')
           /\ addresses[last'.peer][i].active =>
                /\ active_addr_count' = active_addr_count - 1
                /\ EqualShares']_vars

\* an address of the peer that the destroy call described by c does not match
Unmatched(a, c) ==
  /\ ~(c.session_id = 0 /\ SameEndpoint(a, c))
  /\ ~(c.session_id # 0 /\ a.session_id = c.session_id)

\* C6: GAS_addresses_destroy leaves every address of the peer it does not match
\* as it was (presence, session_id, active flag, assigned bandwidth), and on a
\* peer without addresses changes nothing and sends nothing.
C6_DestroyFrame ==
  [][(last'.op = "destroy") =>
       /\ \A i \in 1..Len(addresses[last'.peer]) :
            Unmatched(addresses[last'.peer][i], last') =>
              \E j \in 1..Len(addresses'[last'.peer]) :
                addresses'[last'.peer][j] = addresses[last'.peer][i]
       /\ (Len(addresses[last'.peer]) = 0) =>
            /\ addresses' = addresses
            /\ active_addr_count' = active_addr_count
            /\ sent' = <<>>]_vars

\* the tie-break chain as an order: nonzero inbound bandwidth first, then lower
\* distance, then lower latency
Preferred(a, b) ==
  LET ca == IF a.assigned_bw_in > 0 THEN 0 ELSE 1
      cb == IF b.assigned_bw_in > 0 THEN 0 ELSE 1
  IN \/ ca < cb
     \/ ca = cb /\ a.atsp_distance < b.atsp_distance
     \/ ca = cb /\ a.atsp_distance = b.atsp_distance
               /\ a.atsp_latency < b.atsp_latency

ChainBest(chain) ==
  IF Len(chain) = 0 THEN 0
  ELSE CHOOSE i \in 1..Len(chain) :
         \A j \in 1..Len(chain) :
           (j # i) => \/ Preferred(chain[i], chain[j])
                      \/ (~Preferred(chain[j], chain[i]) /\ i < j)

\* C7: the address selected for a peer is the one the tie-break chain prefers
\* (nonzero inbound bandwidth, then lower distance, then lower latency, then
\* first in iteration order), and none iff the peer has no addresses.
C7_TieBreakChain ==
  \A p \in Peers : find_best(addresses[p]) = ChainBest(addresses[p])

\* C8: GAS_addresses_request_address for a peer with an active address changes
\* no address, counter or bandwidth and only re-announces the active address;
\* for a peer without one it activates exactly the find_best address and
\* increments active_addr_count by one.
C8_RequestIdempotent ==
  [][(last'.op = "request") =>
       LET p == last'.peer
           act == ActiveIdx(addresses[p])
           best == find_best(addresses[p])
       IN IF act # {}
          THEN /\ addresses' = addresses
               /\ active_addr_count' = active_addr_count
               /\ \E i \in act : sent' = <<SchedulingMsg(p, addresses[p][i])>>
          ELSE IF best = 0
          THEN addresses' = addresses /\ active_addr_count' = active_addr_count
          ELSE /\ ActiveIdx(addresses'[p]) = {best}
               /\ active_addr_count' = active_addr_count + 1]_vars

\* C9: every active address has assigned_bw_in = quota_in div active_addr_count
\* and assigned_bw_out = quota_out div active_addr_count.
C9_ProportionalShare == EqualShares

\* three addresses were active with 333 each (1000 div 3); after the session of
\* one of them died the other two have 500 each
C9_Witness ==
  /\ last.op = "destroy"
  /\ last.session_id # 0
  /\ wan_quota_out = 1000
  /\ active_addr_count = 2
  /\ \A p \in Peers : Len(addresses[p]) = 1
  /\ \A p \in Peers :
       IF addresses[p][1].active
       THEN addresses[p][1].assigned_bw_out = 500
       ELSE addresses[p][1].assigned_bw_out = 333 /\ p = last.peer

\* C10: with active_addr_count >= 1 the assigned inbound (outbound) bandwidth
\* of all active addresses sums to at most the inbound (outbound) quota.
C10_QuotaNotExceeded ==
  (active_addr_count >= 1) =>
    /\ TotalIn(1) <= wan_quota_in
    /\ TotalOut(1) <= wan_quota_out

\* three active addresses share the outbound quota after a recalculation
C10_Witness ==
  /\ last.op = "request"
  /\ active_addr_count = 3
  /\ sent # <<>>
  /\ TotalOut(1) = 3 * (wan_quota_out \div 3)
  /\ TotalOut(1) > 0

\* the suggestions a call made to the Scheduling collaborator for peer p
Suggestions(out, p) ==
  SelectSeq(out, LAMBDA m : m.to = "scheduling" /\ m.peer = p)

\* the announced (address, bw_in, bw_out) triple of a suggestion
Triple(m) == <<m.plugin, m.addr, m.bw_in, m.bw_out>>

\* C11: an announcement whose (address, bw_in, bw_out) triple equals the last
\* one announced for the peer makes no call to the collaborators: when a call
\* ended with a suggestion for peer p, the next call does not open its
\* suggestions for p with the same triple.
C11_SuggestionIdempotent ==
  [][\A p \in Peers :
       LET prev == Suggestions(sent, p)
           next == Suggestions(sent', p)
       IN (Len(prev) > 0 /\ Len(next) > 0) =>
            Triple(next[1]) # Triple(prev[Len(prev)])]_vars

\* C12: every announcement goes to Scheduling, then Reservation, then
\* Performance, with the same peer, address and bw_in/bw_out: the calls made
\* by one operation are a sequence of such triples.
C12_AllThreeInOrder ==
  /\ Len(sent) % 3 = 0
  /\ \A k \in 0..((Len(sent) \div 3) - 1) :
       LET s == sent[3 * k + 1]
           r == sent[3 * k + 2]
           n == sent[3 * k + 3]
       IN /\ s.to = "scheduling" /\ r.to = "reservations" /\ n.to = "performance"
          /\ r.peer = s.peer /\ n.peer = s.peer
          /\ n.plugin = s.plugin /\ n.addr = s.addr
          /\ r.bw_in = s.bw_in /\ n.bw_in = s.bw_in /\ n.bw_out = s.bw_out

\* the IPv4 loopback literals: 127.0.0.0/8
IsLoopback4(addr) == addr.sa_family = "AF_INET" /\ addr.bytes[1] = 127

\* (addr AND netmask) = network for an entry of the same address length
InNetwork(addr, cur) ==
  /\ SockLen(addr) = cur.length
  /\ And(addr.bytes, cur.netmask.bytes) = cur.network.bytes

\* C13: a non-loopback IPv4 address is LAN iff some table entry of the same
\* address length has (addr AND netmask) = network, and WAN otherwise.
C13_LanIffInNetwork ==
  (typed.value # "none" /\ typed.addr.sa_family = "AF_INET"
     /\ ~IsLoopback4(typed.addr)) =>
    typed.value =
      IF \E i \in 1..Len(net_head) : InNetwork(typed.addr, net_head[i])
      THEN "GNUNET_ATS_NET_LAN" ELSE "GNUNET_ATS_NET_WAN"

\* C14: the answer is LOOPBACK exactly for the loopback literals (127.0.0.0/8
\* and ::1), whatever the interface table holds.
C14_LoopbackExact ==
  (typed.value # "none") =>
    ((typed.value = "GNUNET_ATS_NET_LOOPBACK") <=>
       (IsLoopback4(typed.addr) \/
        (typed.addr.sa_family = "AF_INET6" /\ typed.addr.bytes = V6(0, 0, 1))))

\* ---------------------------------------------------------------- RIL solver
\* C15: bw_in_assigned and bw_out_assigned of every network never drop below
\* zero, whatever calls of address_add, address_delete,
\* address_change_network, get_preferred_address and
\* stop_get_preferred_address were made.
C15_AssignedNonNegative ==
  \A c \in 1..Len(solver.nets) :
    /\ solver.nets[c].bw_in_assigned >= 0
    /\ solver.nets[c].bw_out_assigned >= 0

\* the dimensions an agent with k addresses has
FeatureCount(k) ==
  RIL_FEATURES_NETWORK_COUNT * Len(solver.nets) + RIL_FEATURES_ADDRESS_COUNT * k

\* C16: for every agent m = 4 * networks_count + (3 + Q) * (addresses in its
\* list) and n = 9 + (addresses in its list); W has n rows, and every row of
\* W, the trace e and s_old have length m.
C16_Dimensions ==
  \A i \in 1..Len(solver.agents) :
    LET g == solver.agents[i] IN
    /\ g.m = FeatureCount(Len(g.addresses))
    /\ g.n = RIL_ACTION_TYPE_NUM + Len(g.addresses)
    /\ Len(g.W) = g.n
    /\ \A a \in 1..Len(g.W) : Len(g.W[a]) = g.m
    /\ Len(g.e) = g.m
    /\ Len(g.s_old) = g.m

\* an agent that was never activated has just lost its only address (which it
\* still points to) and is back at the dimensions of agent_init, while another
\* address was moved to the second network
C16_Witness ==
  /\ rcall.op = "delete"
  /\ Len(solver.agents) = 1
  /\ ~solver.agents[1].active
  /\ solver.agents[1].addresses = <<>>
  /\ solver.agents[1].address_inuse # 0
  /\ ~ats_addresses[solver.agents[1].address_inuse].live
  /\ solver.agents[1].m = FeatureCount(0)
  /\ solver.agents[1].n = RIL_ACTION_TYPE_NUM
  /\ \E id \in RilAddrs : ats_addresses[id].live
                          /\ ats_addresses[id].network = RilNetTypes[2]

\* the agent of the peer before the call of GAS_ril_address_add (the one
\* agent_init makes when there was none)
AgentBefore(peer) ==
  LET ai == ril_find_agent(RilState, peer)
  IN IF ai # 0 THEN solver.agents[ai]
     ELSE agent_init(RilState, peer).agents[Len(solver.agents) + 1]

\* the address was given to the solver and is in the list of its agent now
Added(id) ==
  /\ ~ats_addresses[id].live
  /\ ats_addresses'[id].live
  /\ \E i \in 1..Len(solver'.agents) :
       /\ solver'.agents[i].peer = RilPeerOf(id)
       /\ agent_address_get(solver'.agents[i], id)

\* C17: adding an address grows W by exactly one action row and (3 + Q)
\* feature columns; every stored weight keeps its value, the new columns of
\* the old rows, the new row, and the new slots of e and s_old are zero.
C17_AddKeepsWeights ==
  [][\A id \in RilAddrs :
       Added(id) =>
         LET g == AgentBefore(RilPeerOf(id))
             h == solver'.agents[ril_find_agent(
                    [agents |-> solver'.agents], RilPeerOf(id))]
         IN /\ h.n = g.n + 1
            /\ h.m = g.m + RIL_FEATURES_ADDRESS_COUNT
            /\ Len(h.W) = g.n + 1
            /\ \A a \in 1..(g.n + 1) : Len(h.W[a]) = h.m
            /\ \A a \in 1..g.n : \A i \in 1..g.m : h.W[a][i] = g.W[a][i]
            /\ \A a \in 1..g.n : \A i \in (g.m + 1)..h.m : h.W[a][i] = 0
            /\ \A i \in 1..h.m : h.W[g.n + 1][i] = 0
            /\ \A i \in 1..g.m : h.e[i] = g.e[i] /\ h.s_old[i] = g.s_old[i]
            /\ \A i \in (g.m + 1)..h.m : h.e[i] = 0 /\ h.s_old[i] = 0]_vars

\* an agent that has learned (a nonzero weight in a row) holds two addresses;
\* the second was added after its last step: its slots of the trace are zero,
\* and so are its columns and its row of W
C17_Witness ==
  /\ rcall.op = "add"
  /\ Len(solver.agents) = 1
  /\ LET g == solver.agents[1] IN
     /\ Len(g.addresses) = 2
     /\ g.step_count = MaxSteps
     /\ \E a \in 1..(g.n - 1) : g.W[a][1] # 0 /\ g.W[a][g.m] = 0
     /\ \A i \in 1..g.m : g.W[g.n][i] = 0
     /\ g.e[1] # 0
     /\ \A i \in (g.m - RIL_FEATURES_ADDRESS_COUNT + 1)..g.m : g.e[i] = 0

\* the address was taken from the solver (and freed) while it was in the list
\* of its agent
Deleted(id) ==
  /\ ats_addresses[id].live
  /\ ~ats_addresses'[id].live
  /\ ~ril_abort'
  /\ ril_find_agent(RilState, RilPeerOf(id)) # 0
  /\ agent_address_get(solver.agents[ril_find_agent(RilState, RilPeerOf(id))], id)

\* the vector v without its k elements after the first lo
Without(v, lo, k) ==
  [j \in 1..(Len(v) - k) |-> IF j <= lo THEN v[j] ELSE v[j + k]]

\* C18: removing the address at list index i deletes exactly the (3 + Q)
\* feature columns [4 * networks_count + i * (3 + Q), 4 * networks_count +
\* (i + 1) * (3 + Q)) from every row of W, from e and from s_old, deletes
\* exactly the action row 9 + i, shifts the higher rows down by one and
\* leaves every other weight unchanged.
C18_DeleteCutsColumns ==
  [][\A id \in RilAddrs :
       Deleted(id) =>
         LET ai == ril_find_agent(RilState, RilPeerOf(id))
             g == solver.agents[ai]
             h == solver'.agents[ai]
             i == agent_address_get_index(g, id)
             lo == FeatureCount(i)
             F == RIL_FEATURES_ADDRESS_COUNT
         IN /\ Len(h.W) = g.n - 1
            /\ \A a \in 1..(g.n - 1) :
                 h.W[a] = Without(g.W[IF a <= RIL_ACTION_TYPE_NUM + i
                                      THEN a ELSE a + 1], lo, F)
            /\ h.e = Without(g.e, lo, F)
            /\ h.s_old = Without(g.s_old, lo, F)]_vars

\* after both steps the first of two addresses was removed; the one that is
\* left was added between the steps: its columns of the learned row are zero
\* and are now the columns of the first address slot
C18_Witness ==
  /\ rcall.op = "delete"
  /\ rcall.index = 0
  /\ Len(solver.agents) = 1
  /\ LET g == solver.agents[1] IN
     /\ g.step_count = MaxSteps
     /\ Len(g.addresses) = 1
     /\ \E a \in 1..g.n :
          /\ g.W[a][1] # 0
          /\ \A i \in (FeatureCount(0) + 1)..g.m : g.W[a][i] = 0
     /\ \A i \in 1..g.m : g.e[i] # 0

\* C19: when the address at list index i is removed, a_old is decremented by
\* one if it was a switch-to-address action with an index greater than i, is
\* set to RIL_ACTION_INVALID if it was the switch action of index i, and is
\* unchanged otherwise.
C19_LastActionCorrected ==
  [][\A id \in RilAddrs :
       Deleted(id) =>
         LET ai == ril_find_agent(RilState, RilPeerOf(id))
             g == solver.agents[ai]
             h == solver'.agents[ai]
             i == agent_address_get_index(g, id)
         IN h.a_old =
              IF g.a_old >= RIL_ACTION_TYPE_NUM /\ g.a_old - RIL_ACTION_TYPE_NUM > i
              THEN g.a_old - 1
              ELSE IF g.a_old >= RIL_ACTION_TYPE_NUM
                      /\ g.a_old - RIL_ACTION_TYPE_NUM = i
              THEN RIL_ACTION_INVALID
              ELSE g.a_old]_vars

\* the first address was removed from an agent whose last action was the
\* switch to its second address: the action is now the switch to index 0
C19_Witness ==
  /\ rcall.op = "delete"
  /\ rcall.index = 0
  /\ \E i \in 1..Len(solver.agents) :
       /\ solver.agents[i].step_count > 0
       /\ Len(solver.agents[i].addresses) = 1
       /\ solver.agents[i].a_old = RIL_ACTION_TYPE_NUM

\* C20: on a periodic tick an agent does a learning step (step_count
\* incremented, an action chosen) iff it is active and has a current address;
\* the other agents keep their step count, bandwidth and address.
C20_StepIffActive ==
  [][(solver'.step_count = solver.step_count + 1) =>
       /\ Len(solver'.agents) = Len(solver.agents)
       /\ \A i \in 1..Len(solver.agents) :
            LET g == solver.agents[i]
                h == solver'.agents[i]
            IN IF g.active /\ g.address_inuse # 0
               THEN /\ h.step_count = g.step_count + 1
                    /\ h.a_old # RIL_ACTION_INVALID
               ELSE /\ h.step_count = g.step_count
                    /\ h.bw_in = g.bw_in
                    /\ h.bw_out = g.bw_out
                    /\ h.address_inuse = g.address_inuse]_vars

\* the agent sat out the first tick and, activated since, stepped in the second
C20_Witness ==
  /\ rcall.op = "step"
  /\ solver.step_count = MaxSteps
  /\ \E i \in 1..Len(solver.agents) :
       /\ solver.agents[i].active
       /\ solver.agents[i].step_count = 1

\* C21: GAS_ril_stop_get_preferred_address on an active agent completes and
\* leaves the agent inactive and its current address, if it has one, marked
\* inactive; on an unknown peer or an inactive agent it changes no agent, no
\* address and no network.
C21_StopCompletes ==
  [][rcall'.op = "stop" =>
       LET ai == ril_find_agent(RilState, rcall'.peer)
       IN /\ ~ril_abort'
          /\ IF ai # 0 /\ solver.agents[ai].active
             THEN /\ ~solver'.agents[ai].active
                  /\ solver.agents[ai].address_inuse # 0 =>
                       ~ats_addresses'[solver.agents[ai].address_inuse].active
             ELSE solver' = solver /\ ats_addresses' = ats_addresses]_vars

Max(a, b) == IF a >= b THEN a ELSE b

\* the agent did a step in which it chose the action
Took(g, h, action) == h.step_count = g.step_count + 1 /\ h.a_old = action

\* C22: a halve or decrement action never leaves the bandwidth of its
\* direction below min_bw, and a decrement takes exactly 5 * min_bw: the new
\* bandwidth is the larger of min_bw and half the old one, resp. the old one
\* less 5 * min_bw; an increment adds exactly 5 * min_bw.
C22_DecreaseKeepsMinimum ==
  [][rcall'.op = "step" /\ ~ril_abort' =>
       \A i \in 1..Len(solver.agents) :
         LET g == solver.agents[i]
             h == solver'.agents[i]
         IN /\ Took(g, h, 2) => h.bw_in = Max(g.bw_in \div 2, min_bw)
            /\ Took(g, h, 6) => h.bw_out = Max(g.bw_out \div 2, min_bw)
            /\ Took(g, h, 4) => h.bw_in = Max(g.bw_in - 5 * min_bw, min_bw)
            /\ Took(g, h, 8) => h.bw_out = Max(g.bw_out - 5 * min_bw, min_bw)
            /\ Took(g, h, 3) => h.bw_in = g.bw_in + 5 * min_bw
            /\ Took(g, h, 7) => h.bw_out = g.bw_out + 5 * min_bw]_vars

\* the pending tasks that run the function
Pending(task) == {t \in pending : t.task = task}

\* C23: between init and done each timer has exactly one pending task, the
\* one its handle names; teardown never cancels an invalid task, and after
\* GAS_addresses_done resp. libgnunet_plugin_ats_ril_done no task of the
\* subsystem is left to run.
C23_NoDanglingTimer ==
  /\ ~aborted
  /\ ~ril_abort
  /\ IF "addresses" \in freed
     THEN Pending("get_addresses") = {}
     ELSE Pending("get_addresses") = {Task(interface_task, "get_addresses")}
  /\ IF "ril" \in freed
     THEN Pending("ril_periodic_step") = {}
     ELSE Pending("ril_periodic_step") = {Task(next_step, "ril_periodic_step")}

\* both subsystems were shut down after the interface task and the step task
\* had run and had been scheduled again
C23_Witness ==
  /\ freed = {"addresses", "ril"}
  /\ pending = {}
  /\ solver.step_count = MaxSteps
  /\ typed.value # "none"

\* C24: GAS_addresses_destroy_all, called in any state of the registry,
\* removes every address and leaves active_addr_count = 0: its assertion
\* holds.
C24_DestroyAllEmpties ==
  [][last'.op = "destroy_all" =>
       /\ ~aborted'
       /\ \A peer \in Peers : addresses'[peer] = <<>>
       /\ active_addr_count' = 0]_vars

\* destroy_all was called while two addresses were active
C24_Witness ==
  /\ last.op = "destroy_all"
  /\ last.active = 2
  /\ ~aborted
  /\ active_addr_count = 0
  /\ \A peer \in Peers : addresses[peer] = <<>>

\* the value the last entry of the kind in the list gives, prev without one
Latest(atsi, type, prev) ==
  LET hits == {i \in 1..Len(atsi) : atsi[i].type = type}
  IN IF hits = {} THEN prev
     ELSE atsi[CHOOSE i \in hits : \A j \in hits : j <= i].value

\* the record matches the call by plugin and address or by a nonzero session
MatchesCall(aa, call) ==
  \/ SameEndpoint(aa, call)
  \/ call.session_id # 0 /\ aa.session_id = call.session_id

C25_ZeroAddresses ==
  [][/\ \A id \in RilAddrs :
          LET ai == ril_find_agent(RilState, RilPeerOf(id))
              g == solver.agents[ai]
              h == solver'.agents[ai]
          IN /\ (Deleted(id) /\ g.active /\ g.addresses = <<id>>) =>
                  /\ ~ril_abort'
                  /\ Len(bw_changed') = 1
                  /\ bw_changed'[1].id = id
                  /\ bw_changed'[1].assigned_bw_in = 0
                  /\ bw_changed'[1].assigned_bw_out = 0
                  /\ h.addresses = <<>>
                  /\ h.address_inuse = 0
                  /\ h.bw_in = 0
                  /\ h.bw_out = 0
             /\ (Added(id) /\ ai # 0 /\ g.addresses = <<>>
                   /\ g.address_inuse = 0) =>
                  /\ h.addresses = <<id>>
                  /\ h.address_inuse = id
     /\ (solver'.step_count = solver.step_count + 1) =>
          \A i \in 1..Len(solver.agents) :
            solver.agents[i].address_inuse = 0 =>
              solver'.agents[i] = solver.agents[i]
     /\ (last'.op = "request" /\ addresses[last'.peer] = <<>>
           /\ UNCHANGED rilvars) =>
          /\ UNCHANGED <<addresses, active_addr_count, wan_quota_in,
                         wan_quota_out, aborted>>
          /\ sent' = <<>>]_vars

\* the inbound and outbound bandwidth of the active agents, from the i-th on,
\* whose current address lies in network c
RECURSIVE AgentsBw(_, _)
AgentsBw(c, i) ==
  IF i > Len(solver.agents) THEN <<0, 0>>
  ELSE LET g == solver.agents[i]
           rest == AgentsBw(c, i + 1)
       IN IF g.active /\ g.address_inuse # 0
             /\ ats_addresses[g.address_inuse].solver_information = c
          THEN <<rest[1] + g.bw_in, rest[2] + g.bw_out>>
          ELSE rest

\* C27: in every state, bw_in_assigned and bw_out_assigned of every network
\* equal the sums of bw_in and bw_out of the active agents whose current
\* address lies in that network.
C27_NetworkAccounting ==
  \A c \in 1..Len(solver.nets) :
    /\ solver.nets[c].bw_in_assigned = AgentsBw(c, 1)[1]
    /\ solver.nets[c].bw_out_assigned = AgentsBw(c, 1)[2]

\* C28: bandwidth_changed_cb is called only for peers whose agent is active:
\* every callback of a call is for a peer with an active agent, and
\* GAS_ril_get_preferred_address and GAS_ril_stop_get_preferred_address make
\* no callback.
C28_CallbackOnlyWhenActive ==
  [][/\ \A k \in 1..Len(bw_changed') :
          LET ai == ril_find_agent([agents |-> solver.agents],
                                   bw_changed'[k].peer)
              aj == ril_find_agent([agents |-> solver'.agents],
                                   bw_changed'[k].peer)
          IN /\ ai # 0 => solver.agents[ai].active
             /\ aj # 0
             /\ solver'.agents[aj].active
     /\ rcall'.op \in {"get", "stop"} => bw_changed' = <<>>]_vars

\* a step of an active agent switched to its second address and called back
C28_Witness ==
  /\ rcall.op = "step"
  /\ Len(bw_changed) = 1
  /\ bw_changed[1].id = 2
  /\ bw_changed[1].active
  /\ solver.agents[1].address_inuse = 2

\* C29: no address whose network is inactive (bw_out_available below min_bw)
\* is in the address list of an agent or is the current address of an agent.
C29_InactiveNetworkIgnored ==
  \A i \in 1..Len(solver.agents) :
    LET g == solver.agents[i]
    IN /\ \A k \in 1..Len(g.addresses) :
            ril_network_is_active(RilState, ats_addresses[g.addresses[k]].network)
       /\ (g.address_inuse # 0 /\ ats_addresses[g.address_inuse].live) =>
            ril_network_is_active(RilState, ats_addresses[g.address_inuse].network)

\* C30: in a step of an agent the trace decays and then accumulates. With
\* SARSA every element is gamma * lambda times its value before the step
\* plus 1; with Q-learning it is 1 after an exploratory step and gamma *
\* lambda times its value before the step plus 1 after a greedy one. (The
\* trace is in tenths: gamma * lambda = 3/10, and 1 is 10.)
C30_TraceDecays ==
  [][(solver'.step_count = solver.step_count + 1 /\ ~ril_abort') =>
       \A k \in 1..Len(solver.agents) :
         LET g == solver.agents[k]
             h == solver'.agents[k]
         IN may_step(g) =>
              \A i \in 1..g.m :
                \/ 10 * h.e[i] = 3 * g.e[i] + 100
                \/ solver.algorithm = "RIL_ALGO_Q" /\ h.e[i] = 10]_vars

\* C31: with a scheduler that runs a pending task, the step task is pending
\* again after every tick, and an agent that is active and has a current
\* address does its next step (its step_count grows up to the bound of the
\* model) unless the solver is shut down.
C31_StepsGoOn ==
  /\ [](("ril" \notin freed /\ ~ril_abort) =>
          Pending("ril_periodic_step") = {Task(next_step, "ril_periodic_step")})
  /\ \A k \in 0..(MaxSteps - 1) :
       (/\ "ril" \notin freed
        /\ solver.step_count < MaxSteps
        /\ Len(solver.agents) = 1
        /\ solver.agents[1].active
        /\ solver.agents[1].address_inuse # 0
        /\ solver.agents[1].step_count = k)
       ~> (\/ "ril" \in freed
           \/ /\ Len(solver.agents) = 1
              /\ solver.agents[1].step_count = k + 1)

\* the agent, active with an address before the first tick, did every step
C31_Witness ==
  /\ "ril" \notin freed
  /\ rcall.op = "step"
  /\ solver.step_count = MaxSteps
  /\ Len(solver.agents) = 1
  /\ solver.agents[1].step_count = MaxSteps
  /\ Pending("ril_periodic_step") = {Task(next_step, "ril_periodic_step")}

\* C32: the current address of an agent is none or an address of the agent's
\* list; no agent's address_inuse is an address that was deleted.
C32_NoDanglingInuse ==
  \A i \in 1..Len(solver.agents) :
    LET g == solver.agents[i]
    IN g.address_inuse # 0 =>
         /\ agent_address_get(g, g.address_inuse)
         /\ ats_addresses[g.address_inuse].live

\* C33: the current address of an agent carries the bandwidth pair of the
\* agent: assigned_bw_in = bw_in and assigned_bw_out = bw_out after every
\* call that set the suggestion.
C33_AddressCarriesPair ==
  \A i \in 1..Len(solver.agents) :
    LET g == solver.agents[i]
    IN g.address_inuse # 0 =>
         /\ ats_addresses[g.address_inuse].assigned_bw_in = g.bw_in
         /\ ats_addresses[g.address_inuse].assigned_bw_out = g.bw_out

\* C34: a halve or decrement action never increases the bandwidth of its
\* direction: the value after the action is a bandwidth that did not wrap
\* around (not negative in the model) and is at most the larger of the value
\* before and min_bw.
C34_DecreaseNeverIncreases ==
  [][rcall'.op = "step" /\ ~ril_abort' =>
       \A i \in 1..Len(solver.agents) :
         LET g == solver.agents[i]
             h == solver'.agents[i]
         IN /\ (Took(g, h, 2) \/ Took(g, h, 4)) =>
                 h.bw_in >= 0 /\ h.bw_in <= Max(g.bw_in, min_bw)
            /\ (Took(g, h, 6) \/ Took(g, h, 8)) =>
                 h.bw_out >= 0 /\ h.bw_out <= Max(g.bw_out, min_bw)]_vars

C36_DeleteAssertionsHold ==
  \A id \in RilAddrs :
    LET ai == ril_find_agent(RilState, ats_addresses[id].peer)
    IN (/\ ats_addresses[id].live
        /\ (ai = 0 \/ ~agent_address_get(solver.agents[ai], id))) =>
         ~ril_network_is_active(
            RilState, solver.nets[ats_addresses[id].solver_information].type)

\* C37: no two addresses of a peer carry the same nonzero session_id.
C37_SessionUnique ==
  \A p \in Peers : \A i, j \in 1..Len(addresses[p]) :
    (i # j /\ addresses[p][i].session_id # 0) =>
      addresses[p][i].session_id # addresses[p][j].session_id

\* C38: an announcement whose handle the caller holds is valid (the library
\* has not freed it), its active_transmission is NULL or the handle of a
\* request that is pending, and no call cancelled a transmit handle that was
\* not pending or used a freed announcement.
C38_HandleStaysValid ==
  /\ ~regex_abort
  /\ \A h \in Announcements :
       announcements[h].held =>
         /\ announcements[h].state = "live"
         /\ announcements[h].active_transmission \in {"NULL", "pending"}

\* C39: try_transmission comes to an end in every state of the session. When
\* the session is ready and the messages at the head of its queue are due,
\* one batch is handed to encryption and ready_to_transmit becomes NO; when
\* the session is ready and its queue is empty, the call solicits requests
\* and returns.
C39_TryTransmissionEnds ==
  [][tx' # tx =>
       /\ ~core_abort'
       /\ tx'.result \in {"not ready", "solicited", "corked", "transmitted"}
       /\ tx'.result = "transmitted" =>
            /\ ~session'.ready_to_transmit
            /\ tx'.used > 0
            /\ tx'.used <= tx'.msize
       /\ (tx'.op = "solicit" /\ session.sme = <<>>) =>
            tx'.result = "solicited"
       /\ (tx'.op = "solicit" /\ session.sme # <<>> /\
           Batch(session.sme, 1,
                 [msize |-> 0, min_deadline |-> FOREVER_ABS]).min_deadline <= now) =>
            tx'.result = "transmitted"]_vars

====
